---- MODULE Spec2Model ----
(***************************************************************************)
(* A model of the DevSync room client: the code-editor hook                *)
(* (src/src/hooks/useCodeEditor.ts), the chat hook (src/src/hooks/         *)
(* useChat.ts) and the room component (src/src/components/                 *)
(* RoomComponent.tsx) with the services they call.                         *)
(*                                                                         *)
(* Time is abstracted: a timer is either pending or not, "within the       *)
(* debounce window" means "while the timer set by the previous call is     *)
(* still pending", and a pending timer may fire at any moment, except that *)
(* two timers armed by the same call fire in the order of their delays.    *)
(* Every await of the source splits a handler into the step that issues    *)
(* the request and the step that handles its response; the second step     *)
(* reads the values its closure captured in the first.                     *)
(***************************************************************************)
EXTENDS Integers, Sequences, FiniteSets, TLC

\* ------------------------------------------------------------------ bounds
MaxEdits == 2       \* calls of handleContentChange in one behaviour
MaxSelects == 1     \* calls of selectFile in one behaviour
MaxDeletes == 2     \* calls of deleteFile in one behaviour
MaxFileEvents == 2  \* file-created and file-deleted events received in one behaviour
MaxSends == 1       \* calls of sendMessage in one behaviour
MaxTypingEvents == 3    \* user-typing events received in one behaviour
MaxEntries == 2     \* times the room is entered in one behaviour
MaxMemberEvents == 2    \* member-joined and member-left events received in one behaviour
MaxCreates == 1     \* calls of createFile in one behaviour
MaxLoads == 3       \* runs of the load effect in one behaviour
MaxRefreshes == 1   \* calls of refreshFiles in one behaviour
MaxTypingCalls == 2     \* direct setTyping calls in one behaviour
MaxInputs == 2          \* changes of the chat input in one behaviour
MaxDrops == 1           \* losses of the socket's transport in one behaviour
MaxPosts == 3           \* messages the members post in one behaviour
MaxFetches == 2         \* selectFile calls that fetch the file, in one behaviour
MaxRuns == 3            \* executeCode calls made in one behaviour
MaxAttempts == 4    \* times one request may be put on the wire before the model stops it

\* -------------------------------------------------------------- vocabulary
None == "none"
Clients == {"u1", "u2"}            \* two members of the room; the userId of a client is its name
roomId == "r1"                     \* the roomId prop of the mounted room
FileIds == {"f1", "f2"}
Rooms == {"r1", "r2"}              \* the room ids an incoming event may name
NewFile == [id |-> "f3", content |-> "t"]   \* a file another member creates
ChatUser == "u1"                   \* the userId prop of the chat hook
ChatUsers == Clients \cup {"u3"}   \* the users a user-typing event may name
MsgIds == << "m1", "m2", "m3", "m4", "m5", "m6", "m7", "m8" >>   \* the ids the server assigns, in order
OtherIds == << "o1" >>             \* the ids of other members' messages, in order
Bodies == << "hello1", "hello2", "hello3" >>   \* the text of the first, second, ... message sent
CreatedIds == << "f4", "f5" >>     \* the ids the server gives the files a member creates
Languages == {"javascript", "python"}   \* the languages a file is created in
EditContents == {"a", "b"}         \* what a user may type
ServerFiles == << [id |-> "f1", content |-> ""], [id |-> "f2", content |-> ""] >>

VARIABLES
    \* useCodeEditor state, one copy per client
    files,                \* files[c]: the list of CodeFile records [id, content]
    currentFile,          \* currentFile[c]: a CodeFile record or NoFile
    editorContent,        \* editorContent[c]: the editable buffer
    updateTimeoutRef,     \* updateTimeoutRef[c]: the pending 200 ms broadcast timers (a set)
    saveTimeoutRef,       \* saveTimeoutRef[c]: the pending 1000 ms save timers (a set)
    isUpdatingFromRemote, \* isUpdatingFromRemote[c]: the echo-suppression flag
    socket,               \* socket[c]: TRUE when the hook holds an attached channel
    inbox,                \* inbox[c]: code-updated events on their way to client c
    updateRequests,       \* updateRequests[c]: updateFile requests awaiting their response
    deleteRequests,       \* deleteRequests[c]: deleteFile calls awaiting their response
    fileNotices,          \* fileNotices[c]: the file-created / file-deleted notices c has emitted
    editorMounted,        \* editorMounted[c]: the useCodeEditor hook of c is mounted
    \* useChat state of one client
    messages,             \* the transcript: a list of ChatMessage records [id, roomId, body]
    typing,               \* the list of TypingIndicator records [userId, isTyping]
    typingTimers,         \* typingTimers[u]: pending 5 s removal timers for user u
    storeRequests,        \* what sendMessage handed to the server and the server has not stored yet
               \* sendMessage calls awaiting the answer of POST /chat/send
    sendLog,              \* the sendMessage calls: what was emitted and what the call returned
    serverLog,            \* the messages the server has stored, in order
    deliveries,           \* chat events on their way to the client
    historyRequests,      \* getChatHistory requests of loadChatHistory awaiting their response
    messagesOffset,       \* useChat: messagesOffset.current
    hasMoreMessages,      \* useChat: hasMoreMessages
    loadingMore,          \* useChat: loadingMore
    typingTimeout,        \* useChat: pending 3 s timers of setTyping (typingTimeout.current is the last)
    typingSent,           \* the isTyping value of the last typing event emitted ("none" at first)
    inputTyping,          \* room view: isTyping
    inputTimeout,         \* room view: pending 1 s timers of handleInputChange
    chatMounted,          \* the room view, and useChat with it, is mounted
    link,                 \* the transport of the room's socket: "up" or "down"
    \* the room view of one member
    phase,                \* the view shown and how far the room view has come up
    channels,             \* every socket created so far: [session, connected, handlers]
    serviceSocket,        \* roomService.socket: an index of channels, 0 for null
    custody,              \* per socket: the component that opened it and the one that closed it
    roomSocket,           \* the socket state of the room view: an index, 0 for null
    members,              \* the roster of the room view: userIds in order
    leaving,              \* a leave or delete request of the room view is in flight
    applied,              \* applied[h]: handlers of hook h the last server event ran
    emitted,              \* the join-room and leave-room events emitted, in order
    ownerId,              \* server: the owner of the room entered
    roomDetails,          \* the room the view holds (NoRoom when null)
    issued,               \* the requests the leave-or-delete call in flight issued
    executing,            \* useCodeExecution: the executing flag
    lastResult,           \* useCodeExecution: the result kept (NoResult when null)
    executionError,       \* useCodeExecution: an error is shown
    runs,                 \* runs[n]: where the n-th executeCode call is
    \* useCodeEditor: creating and loading files
    createRequests,       \* createRequests[c]: createFile calls awaiting their answer
    loadRequests,         \* loadRequests[c]: loadFiles calls awaiting their answer
    loadedFor,            \* loadedFor[c]: the currentFile the load effect last ran with
    selectRequests,       \* selectRequests[c]: getFile requests of selectFile awaiting their response
    \* the request helpers
    reqPc,                \* reqPc[q]: where request q stands
    reqVia,               \* reqVia[q]: the helper request q goes through
    reqSent,              \* reqSent[q]: times request q was put on the wire
    reqRefreshes,         \* reqRefreshes[q]: refresh calls made for request q
    reqToken,             \* reqToken[q]: the bearer token of the last send of q
    accessToken,          \* localStorage accessToken ("none" when removed)
    refreshTokenStored,   \* localStorage holds a refreshToken
    atLogin,              \* window.location.href = "/" was assigned: the page reloads
    \* history
    lastOp,               \* the handler that ran last: [op, client, content, from]
    nEdits,               \* nEdits[c]: handleContentChange calls of client c so far
    lastKnown,            \* lastKnown[c][f]: content of the last edit client c made or received for file f
    typed,                \* typed[c]: the [fileId, content] pairs of the edits c typed
    nSelects,             \* nSelects[c]: selectFile calls of client c so far
    calls                 \* calls[k]: how often the bounded operation k ran so far

editorVars == << files, currentFile, editorContent, updateTimeoutRef, saveTimeoutRef,
                 isUpdatingFromRemote, socket, inbox, updateRequests, deleteRequests,
                 fileNotices >>
chatVars == << messages, typing, typingTimers, storeRequests, sendLog, serverLog, deliveries >>
pagesVars == << historyRequests, messagesOffset, hasMoreMessages, loadingMore >>
typingOutVars == << typingTimeout, typingSent, inputTyping, inputTimeout, chatMounted >>
roomVars == << phase, channels, custody, serviceSocket, roomSocket, members, leaving, applied,
              emitted, ownerId, roomDetails, issued >>
apiVars == << reqPc, reqVia, reqSent, reqRefreshes, reqToken, accessToken,
             refreshTokenStored, atLogin >>
fileIoVars == << createRequests, loadRequests, loadedFor, selectRequests >>
execVars == << executing, lastResult, executionError, runs >>
vars == << editorVars, fileIoVars, chatVars, pagesVars, typingOutVars, link, roomVars, apiVars, execVars,
          lastOp, nEdits, lastKnown, typed, editorMounted, nSelects, calls >>

\* What the steps of two members editing leave alone.
syncFrame == << deleteRequests, fileNotices, fileIoVars, chatVars, pagesVars, typingOutVars, link, roomVars, apiVars,
               execVars, calls >>
\* What the steps on the file set leave alone beside the editor's variables.
filesFrame == << fileIoVars, chatVars, pagesVars, typingOutVars, link, roomVars, apiVars, execVars >>
\* What the steps of the chat leave alone.
chatFrame == << pagesVars, typingOutVars, link, editorVars, fileIoVars, roomVars, apiVars, execVars, nEdits, lastKnown, typed, editorMounted, nSelects >>

\* What lastOp records: the handler, the client it ran on, the content (or id)
\* it was given and the user (or room) its payload names.
Op(o, c, x, u) == [op |-> o, client |-> c, content |-> x, from |-> u]

Total(n) == n["u1"] + n["u2"]

\* currentFile === null: a record without an id, so that currentFile?.id is None
NoFile == [id |-> None, content |-> ""]

\* Every file id of the model.
AllFileIds == FileIds \cup {NewFile.id} \cup {CreatedIds[i] : i \in DOMAIN CreatedIds}

\* file.id of a CodeFile or of null (currentFile?.id)
IdOf(file) == file.id

\* files.find(f => f.id === fileId)
RECURSIVE Find(_, _)
Find(list, fileId) ==
    IF list = << >> THEN NoFile
    ELSE IF Head(list).id = fileId THEN Head(list)
    ELSE Find(Tail(list), fileId)

\* ------------------------------------------------------------------- Init
\* The state after room entry: loadFiles has returned the server's list and
\* selected its first file, and the room's channel is attached.
InitEditor ==
    /\ files = [c \in Clients |-> ServerFiles]
    /\ currentFile = [c \in Clients |-> ServerFiles[1]]
    /\ editorContent = [c \in Clients |-> ServerFiles[1].content]
    /\ updateTimeoutRef = [c \in Clients |-> {}]
    /\ saveTimeoutRef = [c \in Clients |-> {}]
    /\ isUpdatingFromRemote = [c \in Clients |-> FALSE]
    /\ socket = [c \in Clients |-> TRUE]
    /\ inbox = [c \in Clients |-> << >>]
    /\ updateRequests = [c \in Clients |-> {}]
    /\ deleteRequests = [c \in Clients |-> {}]
    /\ fileNotices = [c \in Clients |-> {}]

\* No createFile or loadFiles call is under way; the load effect has run for
\* the selection.
InitFileIo ==
    /\ createRequests = [c \in Clients |-> {}]
    /\ loadRequests = [c \in Clients |-> {}]
    /\ loadedFor = currentFile
    /\ selectRequests = [c \in Clients |-> {}]

InitHistory ==
    /\ lastOp = Op("init", None, "", None)
    /\ nEdits = [c \in Clients |-> 0]
    /\ lastKnown = [c \in Clients |-> [f \in AllFileIds |-> None]]
    /\ typed = [c \in Clients |-> {}]
    /\ editorMounted = [c \in Clients |-> TRUE]
    /\ nSelects = [c \in Clients |-> 0]
    /\ calls = [k \in {"deleteFile", "fileEvent", "sendMessage", "otherMessage",
                        "typingEvent", "enterRoom", "memberEvent", "createFile",
                        "loadFiles", "refreshFiles", "executeCode",
                        "selectFetch", "setTyping", "inputChange", "channelDrop"} |-> 0]

\* The chat of a room just entered, its history (empty) loaded.
InitChat ==
    /\ messages = << >>
    /\ typing = << >>
    /\ typingTimers = [u \in ChatUsers |-> 0]
    /\ storeRequests = {}
    /\ sendLog = {}
    /\ serverLog = << >>
    /\ deliveries = {}

\* ------------------------------------------------------ sockets and hooks
\* The events each hook registers a handler for.
UseRoomsEvents == {"room-created", "room-joined", "room-left", "member-joined",
                   "member-left", "error-message"}
RoomComponentEvents == {"member-joined", "member-left"}
UseChatEvents == {"new-message", "message-sent", "user-typing", "chat-error"}
UseCodeEditorEvents == {"code-updated", "cursor-moved", "file-created", "file-deleted",
                        "editor-error"}
\* The events removeMessageListeners and removeEditorListeners take off.
MessageListeners == {"new-message", "message-sent", "user-typing", "user-joined-room",
                     "user-left-room", "chat-error"}
EditorListeners == {"code-updated", "cursor-moved", "file-created", "file-deleted",
                    "editor-error"}

Hooks == {"useRooms", "RoomComponent", "useChat", "useCodeEditor"}
Registrations ==
    ({"useRooms"} \X UseRoomsEvents) \cup ({"RoomComponent"} \X RoomComponentEvents)
    \cup ({"useChat"} \X UseChatEvents) \cup ({"useCodeEditor"} \X UseCodeEditorEvents)

\* A socket no handler is registered on.
NoHandlers == [r \in Registrations |-> 0]

\* socket.on(event, callback) by one hook, for each of its events.
SocketOn(h, hook, events) ==
    [r \in Registrations |-> IF r[1] = hook /\ r[2] \in events THEN h[r] + 1 ELSE h[r]]

\* socket.off(event) for each of the events: every handler of the event goes.
SocketOff(h, events) ==
    [r \in Registrations |-> IF r[2] \in events THEN 0 ELSE h[r]]

\* socket.disconnect() that leaves the socket connected.
DisconnectNothing(chs, i) == chs

\* socket.disconnect() on socket i (nothing on null).
Disconnect(chs, i) ==
    IF i = 0 THEN chs ELSE [chs EXCEPT ![i].connected = FALSE]

\* socket.removeAllListeners() on socket i (nothing on null).
RemoveAllListeners(chs, i) ==
    IF i = 0 THEN chs ELSE [chs EXCEPT ![i].handlers = NoHandlers]

\* The handlers of one hook registered on socket i (nothing on null).
Register(chs, i, hook, events) ==
    IF i = 0 THEN chs ELSE [chs EXCEPT ![i].handlers = SocketOn(@, hook, events)]

\* The handlers of the events taken off socket i (nothing on null).
Unregister(chs, i, events) ==
    IF i = 0 THEN chs ELSE [chs EXCEPT ![i].handlers = SocketOff(@, events)]

\* roomService.initializeSocket: the socket the service holds is disconnected
\* and a new one is created; session is the entry of the room it is created in
\* (0 on the dashboard).
InitializeSocket(chs, svc, session) ==
    Append(Disconnect(chs, svc),
           [session |-> session, connected |-> TRUE, handlers |-> NoHandlers])

\* The effect of useRooms: a new socket with the hook's handlers on it.
UseRoomsEffect(chs, svc, session) ==
    Register(InitializeSocket(chs, svc, session), Len(chs) + 1, "useRooms", UseRoomsEvents)

\* The cleanup of the effect of useRooms: removeAllListeners, disconnectSocket.
UseRoomsCleanup(chs, svc) == Disconnect(RemoveAllListeners(chs, svc), svc)

\* socket.emit(event) that sends nothing.
EmitNothing(log, chs, i, event) == log

\* socket.emit(event, {roomId}) on socket i: the event is sent when the socket is
\* connected; on a socket disconnected by the client it stays in the send
\* buffer for good.
Emit(log, chs, i, event) ==
    IF i = 0
    THEN log
    ELSE Append(log, [event |-> event, channel |-> i, open |-> chs[i].connected])

\* io(url): the component whose effect called initializeSocket opened the socket.
Opened(cu, who) == Append(cu, [openedBy |-> who, closedBy |-> None])

\* socket.disconnect() on socket i while it is connected: the component whose
\* code called it closed the socket.
Closed(cu, chs, i, who) ==
    IF i = 0 THEN cu
    ELSE IF chs[i].connected THEN [cu EXCEPT ![i].closedBy = who] ELSE cu

\* The room state of the room view before setRoom: room?.ownerId is undefined.
NoRoom == [ownerId |-> None]

\* The dashboard of a signed-in user: the effect of useRooms has run.
InitRoom ==
    /\ phase = "dashboard"
    /\ channels = UseRoomsEffect(<< >>, 0, 0)
    /\ custody = Opened(<< >>, "useRooms")
    /\ serviceSocket = 1
    /\ roomSocket = 0
    /\ members = << >>
    /\ leaving = FALSE
    /\ applied = [h \in Hooks |-> 0]
    /\ emitted = << >>
    /\ ownerId = None
    /\ roomDetails = NoRoom
    /\ issued = {}

\* The requests followed, and the two helpers a request may go through.
Requests == {"q1", "q2"}
Helpers == {"request", "apiCall"}
Statuses == {200, 401, 500}

\* A signed-in user, no request under way.
InitApi ==
    /\ reqPc = [q \in Requests |-> "idle"]
    /\ reqVia = [q \in Requests |-> "request"]
    /\ reqSent = [q \in Requests |-> 0]
    /\ reqRefreshes = [q \in Requests |-> 0]
    /\ reqToken = [q \in Requests |-> "none"]
    /\ accessToken = "t0"
    /\ refreshTokenStored = TRUE
    /\ atLogin = FALSE

\* useCodeExecution just mounted: nothing run, no result, no error.
NoResult == 0
InitExec ==
    /\ executing = FALSE
    /\ lastResult = NoResult
    /\ executionError = FALSE
    /\ runs = [n \in 1..MaxRuns |-> "idle"]

\* The first page of the chat history was loaded and was empty.
InitPages ==
    /\ historyRequests = {}
    /\ messagesOffset = 0
    /\ hasMoreMessages = FALSE
    /\ loadingMore = FALSE

\* Nothing typed in the chat input yet.
InitTypingOut ==
    /\ typingTimeout = 0
    /\ typingSent = "none"
    /\ inputTyping = FALSE
    /\ inputTimeout = 0
    /\ chatMounted = TRUE
    /\ link = "up"

Init ==
    /\ InitEditor /\ InitFileIo /\ InitChat /\ InitPages /\ InitTypingOut /\ InitRoom /\ InitApi
    /\ InitExec
    /\ InitHistory

\* ------------------------------------------------- useCodeEditor: editing
\* The record of the last edit of each file: an edit of file fileId with the
\* content, made or received by client c, is noted when it counts.
NoteEdit(known, c, fileId, content, counts) ==
    IF counts /\ fileId \in AllFileIds
    THEN [known EXCEPT ![c][fileId] = content]
    ELSE known

\* A code-updated event is an edit of another member in this room.
IsRemoteEdit(c, change) == change.roomId = roomId /\ change.userId # c

\* handleContentChange without its two clearTimeout calls: the timers of the
\* earlier calls stay pending beside the new ones.
HandleContentChangeNoClear(c, content) ==
    /\ Total(nEdits) < MaxEdits
    /\ nEdits' = [nEdits EXCEPT ![c] = @ + 1]
    /\ lastOp' = Op("edit", c, content, c)
    /\ IF isUpdatingFromRemote[c]
       THEN /\ isUpdatingFromRemote' = [isUpdatingFromRemote EXCEPT ![c] = FALSE]
            /\ UNCHANGED << editorContent, updateTimeoutRef, saveTimeoutRef >>
       ELSE /\ editorContent' = [editorContent EXCEPT ![c] = content]
            /\ updateTimeoutRef' = [updateTimeoutRef EXCEPT ![c] = @ \cup
                   {[fileId |-> IdOf(currentFile[c]), content |-> content, socket |-> socket[c]]}]
            /\ saveTimeoutRef' = [saveTimeoutRef EXCEPT ![c] = @ \cup
                   {[fileId |-> IdOf(currentFile[c]), content |-> content]}]
            /\ UNCHANGED isUpdatingFromRemote
    /\ lastKnown' = NoteEdit(lastKnown, c, IdOf(currentFile[c]), content,
                             ~isUpdatingFromRemote[c])
    /\ typed' = [typed EXCEPT ![c] = @ \cup {[fileId |-> IdOf(currentFile[c]), content |-> content]}]
    /\ UNCHANGED editorMounted
    /\ UNCHANGED << files, currentFile, socket, inbox, updateRequests, nSelects, syncFrame >>

\* handleContentChange(content), exported as setEditorContent.
HandleContentChange(c, content) ==
    /\ Total(nEdits) < MaxEdits
    /\ nEdits' = [nEdits EXCEPT ![c] = @ + 1]
    /\ lastOp' = Op("edit", c, content, c)
    /\ IF isUpdatingFromRemote[c]
       THEN /\ isUpdatingFromRemote' = [isUpdatingFromRemote EXCEPT ![c] = FALSE]
            /\ UNCHANGED << editorContent, updateTimeoutRef, saveTimeoutRef >>
       ELSE /\ editorContent' = [editorContent EXCEPT ![c] = content]
            /\ updateTimeoutRef' = [updateTimeoutRef EXCEPT ![c] =
                   {[fileId |-> IdOf(currentFile[c]), content |-> content, socket |-> socket[c]]}]
            /\ saveTimeoutRef' = [saveTimeoutRef EXCEPT ![c] =
                   {[fileId |-> IdOf(currentFile[c]), content |-> content]}]
            /\ UNCHANGED isUpdatingFromRemote
    /\ lastKnown' = NoteEdit(lastKnown, c, IdOf(currentFile[c]), content,
                             ~isUpdatingFromRemote[c])
    /\ typed' = [typed EXCEPT ![c] = @ \cup {[fileId |-> IdOf(currentFile[c]), content |-> content]}]
    /\ UNCHANGED editorMounted
    /\ UNCHANGED << files, currentFile, socket, inbox, updateRequests, nSelects, syncFrame >>

\* codeEditorService.emitCodeChange: the change reaches every attached member
\* of the room as a code-updated event, in the order it was emitted.
EmitCodeChange(box, change) ==
    [d \in Clients |-> IF socket[d] THEN Append(box[d], change) ELSE box[d]]

\* A 200 ms timer that reads the selection when it fires, not the one of the
\* render the edit was made in.
UpdateTimeoutFireForSelected(c) ==
    \E t \in updateTimeoutRef[c] :
    /\ lastOp' = Op("broadcast", c, t.content, c)
    /\ updateTimeoutRef' = [updateTimeoutRef EXCEPT ![c] = @ \ {t}]
    /\ inbox' = IF currentFile[c] # NoFile /\ t.socket
                THEN EmitCodeChange(inbox, [roomId |-> roomId, fileId |-> IdOf(currentFile[c]),
                                            content |-> t.content, userId |-> c])
                ELSE inbox
    /\ UNCHANGED << files, currentFile, editorContent, saveTimeoutRef,
                    isUpdatingFromRemote, socket, updateRequests, nEdits, lastKnown, typed, editorMounted,
                    nSelects, syncFrame >>

\* The 200 ms timer of handleContentChange fires.
UpdateTimeoutFire(c) ==
    \E t \in updateTimeoutRef[c] :
    /\ lastOp' = Op("broadcast", c, t.content, c)
    /\ updateTimeoutRef' = [updateTimeoutRef EXCEPT ![c] = @ \ {t}]
    /\ inbox' = IF t.fileId # None /\ t.socket
                THEN EmitCodeChange(inbox, [roomId |-> roomId, fileId |-> t.fileId,
                                            content |-> t.content, userId |-> c])
                ELSE inbox
    /\ UNCHANGED << files, currentFile, editorContent, saveTimeoutRef,
                    isUpdatingFromRemote, socket, updateRequests, nEdits, lastKnown, typed, editorMounted, nSelects, syncFrame >>

\* The 1000 ms timer of handleContentChange fires: updateFileContent(content)
\* up to its await. Both timers are armed by the same call, so the 200 ms one
\* has fired before.
SaveTimeoutFire(c) ==
    \E t \in saveTimeoutRef[c] :
    /\ updateTimeoutRef[c] = {}
    /\ lastOp' = Op("save", c, t.content, c)
    /\ saveTimeoutRef' = [saveTimeoutRef EXCEPT ![c] = @ \ {t}]
    /\ updateRequests' = IF t.fileId # None
                         THEN [updateRequests EXCEPT ![c] = @ \cup {[fileId |-> t.fileId, content |-> t.content]}]
                         ELSE updateRequests
    /\ UNCHANGED << files, currentFile, editorContent, updateTimeoutRef,
                    isUpdatingFromRemote, socket, inbox, nEdits, lastKnown, typed, editorMounted, nSelects, syncFrame >>

\* The handler's condition without its test of the origin.
AppliesCodeChangeAnyOrigin(c, change) ==
    /\ change.roomId = roomId
    /\ change.fileId = IdOf(currentFile[c])

\* The condition under which the code-updated handler applies a change.
AppliesCodeChange(c, change) ==
    /\ change.roomId = roomId
    /\ change.fileId = IdOf(currentFile[c])
    /\ change.userId # c

\* The handler applying a change the way a local edit is applied: through the
\* debounced broadcast and save.
OnCodeChangeAsLocalEdit(c) ==
    /\ socket[c]
    /\ inbox[c] # << >>
    /\ LET change == Head(inbox[c]) IN
       IF AppliesCodeChange(c, change)
       THEN /\ editorContent' = [editorContent EXCEPT ![c] = change.content]
            /\ updateTimeoutRef' = [updateTimeoutRef EXCEPT ![c] =
                   {[fileId |-> IdOf(currentFile[c]), content |-> change.content, socket |-> socket[c]]}]
            /\ saveTimeoutRef' = [saveTimeoutRef EXCEPT ![c] =
                   {[fileId |-> IdOf(currentFile[c]), content |-> change.content]}]
            /\ lastOp' = Op("remoteApplied", c, change.content, change.userId)
       ELSE /\ UNCHANGED << editorContent, updateTimeoutRef, saveTimeoutRef >>
            /\ lastOp' = Op("remoteIgnored", c, change.content, change.userId)
    /\ inbox' = [inbox EXCEPT ![c] = Tail(@)]
    /\ lastKnown' = NoteEdit(lastKnown, c, Head(inbox[c]).fileId, Head(inbox[c]).content,
                             IsRemoteEdit(c, Head(inbox[c])))
    /\ UNCHANGED << typed, editorMounted >>
    /\ UNCHANGED << files, currentFile, isUpdatingFromRemote,
                    socket, updateRequests, nEdits, nSelects, syncFrame >>

\* The code-updated handler registered by codeEditorService.onCodeChange.
OnCodeChange(c) ==
    /\ socket[c]
    /\ inbox[c] # << >>
    /\ LET change == Head(inbox[c]) IN
       IF AppliesCodeChange(c, change)
       THEN /\ isUpdatingFromRemote' = [isUpdatingFromRemote EXCEPT ![c] = TRUE]
            /\ editorContent' = [editorContent EXCEPT ![c] = change.content]
            /\ lastOp' = Op("remoteApplied", c, change.content, change.userId)
       ELSE /\ UNCHANGED << isUpdatingFromRemote, editorContent >>
            /\ lastOp' = Op("remoteIgnored", c, change.content, change.userId)
    /\ inbox' = [inbox EXCEPT ![c] = Tail(@)]
    /\ lastKnown' = NoteEdit(lastKnown, c, Head(inbox[c]).fileId, Head(inbox[c]).content,
                             IsRemoteEdit(c, Head(inbox[c])))
    /\ UNCHANGED << typed, editorMounted >>
    /\ UNCHANGED << files, currentFile, updateTimeoutRef, saveTimeoutRef,
                    socket, updateRequests, nEdits, nSelects, syncFrame >>

\* selectFile(fileId) for a file found in the local list.
SelectLocalFile(c, fileId) ==
    LET file == Find(files[c], fileId) IN
    /\ Total(nSelects) < MaxSelects
    /\ file # NoFile
    /\ nSelects' = [nSelects EXCEPT ![c] = @ + 1]
    /\ lastOp' = Op("select", c, file.content, c)
    /\ currentFile' = [currentFile EXCEPT ![c] = file]
    /\ editorContent' = [editorContent EXCEPT ![c] = file.content]
    /\ UNCHANGED << files, updateTimeoutRef, saveTimeoutRef, isUpdatingFromRemote,
                    socket, inbox, updateRequests, nEdits, lastKnown, typed, editorMounted, syncFrame >>

\* --------------------------------------- two members editing the same room
NextSync ==
    \E c \in Clients :
        \/ \E content \in EditContents : HandleContentChange(c, content)
        \/ UpdateTimeoutFire(c)
        \/ SaveTimeoutFire(c)
        \/ OnCodeChange(c)
        \/ \E fileId \in FileIds : SelectLocalFile(c, fileId)

SpecSync == Init /\ [][NextSync]_vars

\* prev.map(file => file.id === currentFile.id ? {...file, content} : file)
WithContent(list, fileId, content) ==
    [i \in DOMAIN list |-> IF list[i].id = fileId
                           THEN [list[i] EXCEPT !.content = content]
                           ELSE list[i]]

\* setCurrentFile(prev => prev ? {...prev, content} : null)
SelectedWithContent(file, content) ==
    IF file = NoFile THEN NoFile ELSE [file EXCEPT !.content = content]

\* updateFileContent after its await, success: the list entry of the file the
\* request was made for takes the content, and so does the file selected by
\* now.
UpdateFileSucceeds(c, r) ==
    /\ r \in updateRequests[c]
    /\ updateRequests' = [updateRequests EXCEPT ![c] = @ \ {r}]
    /\ files' = [files EXCEPT ![c] = WithContent(@, r.fileId, r.content)]
    /\ currentFile' = [currentFile EXCEPT ![c] = SelectedWithContent(@, r.content)]
    /\ lastOp' = Op("saveOk", c, r.content, r.fileId)
    /\ UNCHANGED << editorContent, updateTimeoutRef, saveTimeoutRef, isUpdatingFromRemote,
                    socket, inbox, nEdits, lastKnown, typed, editorMounted, nSelects, syncFrame >>

\* updateFileContent after its await, the request rejected or answered
\* success=false: the error is set.
UpdateFileFails(c, r) ==
    /\ r \in updateRequests[c]
    /\ updateRequests' = [updateRequests EXCEPT ![c] = @ \ {r}]
    /\ lastOp' = Op("saveFailed", c, r.content, r.fileId)
    /\ UNCHANGED << files, currentFile, editorContent, updateTimeoutRef, saveTimeoutRef,
                    isUpdatingFromRemote, socket, inbox, nEdits, lastKnown, typed, editorMounted, nSelects,
                    syncFrame >>

\* ------------------------------------------- useCodeEditor: file operations
\* prev.filter(file => file.id !== fileId)
Without(list, fileId) == SelectSeq(list, LAMBDA f : f.id # fileId)

\* The delete button of a file tab: rendered for each listed file while the
\* list holds more than one file.
CanDeleteFile(c, fileId) ==
    /\ Len(files[c]) > 1
    /\ Find(files[c], fileId) # NoFile

\* deleteFile(fileId) up to its await: the request is issued; the closure keeps
\* currentFile, files and socket of the render the call was made in.
DeleteFileCall(c, fileId) ==
    /\ calls["deleteFile"] < MaxDeletes
    /\ CanDeleteFile(c, fileId)
    /\ calls' = [calls EXCEPT !["deleteFile"] = @ + 1]
    /\ lastOp' = Op("deleteCall", c, fileId, c)
    /\ deleteRequests' = [deleteRequests EXCEPT ![c] = @ \cup
           {[fileId |-> fileId, currentFile |-> currentFile[c],
             files |-> files[c], socket |-> socket[c]]}]
    /\ UNCHANGED << files, currentFile, editorContent, updateTimeoutRef, saveTimeoutRef,
                    isUpdatingFromRemote, socket, inbox, updateRequests, fileNotices,
                    nEdits, lastKnown, typed, editorMounted, nSelects, filesFrame >>

\* The selection deleteFile falls back to: the first file its closure's list
\* holds beside the deleted one, as selectFile finds it in that same list.
FallbackFile(r) ==
    LET remainingFiles == Without(r.files, r.fileId) IN
    IF remainingFiles # << >> THEN Find(r.files, remainingFiles[1].id) ELSE NoFile

\* deleteFile after its await, the request having succeeded.
DeleteFileSucceeds(c, r) ==
    /\ r \in deleteRequests[c]
    /\ deleteRequests' = [deleteRequests EXCEPT ![c] = @ \ {r}]
    /\ lastOp' = Op("deleteOk", c, r.fileId, c)
    /\ files' = [files EXCEPT ![c] = Without(@, r.fileId)]
    /\ IF IdOf(r.currentFile) = r.fileId
       THEN /\ currentFile' = [currentFile EXCEPT ![c] = FallbackFile(r)]
            /\ editorContent' = [editorContent EXCEPT ![c] = FallbackFile(r).content]
       ELSE UNCHANGED << currentFile, editorContent >>
    /\ fileNotices' = IF r.socket
                      THEN [fileNotices EXCEPT ![c] = @ \cup {[event |-> "file-deleted", fileId |-> r.fileId]}]
                      ELSE fileNotices
    /\ UNCHANGED << updateTimeoutRef, saveTimeoutRef, isUpdatingFromRemote, socket,
                    inbox, updateRequests, nEdits, lastKnown, typed, editorMounted, nSelects, calls, filesFrame >>

\* deleteFile after its await, the request rejected or answered success=false.
DeleteFileFails(c, r) ==
    /\ r \in deleteRequests[c]
    /\ deleteRequests' = [deleteRequests EXCEPT ![c] = @ \ {r}]
    /\ lastOp' = Op("deleteFailed", c, r.fileId, c)
    /\ UNCHANGED << files, currentFile, editorContent, updateTimeoutRef, saveTimeoutRef,
                    isUpdatingFromRemote, socket, inbox, updateRequests, fileNotices,
                    nEdits, lastKnown, typed, editorMounted, nSelects, calls, filesFrame >>

\* The file-deleted handler registered by codeEditorService.onFileDeleted.
OnFileDeleted(c, room, fileId) ==
    /\ socket[c]
    /\ calls["fileEvent"] < MaxFileEvents
    /\ calls' = [calls EXCEPT !["fileEvent"] = @ + 1]
    /\ lastOp' = Op("fileDeleted", c, fileId, None)
    /\ IF room = roomId
       THEN /\ files' = [files EXCEPT ![c] = Without(@, fileId)]
            /\ IF IdOf(currentFile[c]) = fileId
               THEN /\ currentFile' = [currentFile EXCEPT ![c] = NoFile]
                    /\ editorContent' = [editorContent EXCEPT ![c] = ""]
               ELSE UNCHANGED << currentFile, editorContent >>
       ELSE UNCHANGED << files, currentFile, editorContent >>
    /\ UNCHANGED << updateTimeoutRef, saveTimeoutRef, isUpdatingFromRemote, socket,
                    inbox, updateRequests, deleteRequests, fileNotices, nEdits, lastKnown, typed, editorMounted, nSelects, filesFrame >>

\* The file-created handler registered by codeEditorService.onFileCreated.
OnFileCreated(c, room, file) ==
    /\ socket[c]
    /\ calls["fileEvent"] < MaxFileEvents
    /\ calls' = [calls EXCEPT !["fileEvent"] = @ + 1]
    /\ lastOp' = Op("fileCreated", c, file.id, None)
    /\ files' = IF room = roomId /\ Find(files[c], file.id) = NoFile
                THEN [files EXCEPT ![c] = Append(@, file)]
                ELSE files
    /\ UNCHANGED << currentFile, editorContent, updateTimeoutRef, saveTimeoutRef,
                    isUpdatingFromRemote, socket, inbox, updateRequests, deleteRequests,
                    fileNotices, nEdits, lastKnown, typed, editorMounted, nSelects, filesFrame >>

\* A template that is empty whatever the language.
NoDefaultContent(language) == ""

\* language.defaultContent || '' of the language selected for the new file.
DefaultContent(language) ==
    IF language = "javascript" THEN "// Welcome" ELSE "# Welcome"

\* What the create and load steps leave alone.
createFrame == << updateTimeoutRef, saveTimeoutRef, isUpdatingFromRemote, socket, inbox,
                  updateRequests, deleteRequests, loadRequests, loadedFor, selectRequests,
                  chatVars, pagesVars, typingOutVars, link, roomVars, apiVars, execVars, nEdits, lastKnown, typed, editorMounted, nSelects >>

\* createFile(name, language) up to its await: the request carries the
\* language's default content; the closure keeps the socket of the render.
CreateFileCall(c, language) ==
    /\ calls["createFile"] < MaxCreates
    /\ calls["createFile"] < Len(CreatedIds)
    /\ calls' = [calls EXCEPT !["createFile"] = @ + 1]
    /\ lastOp' = Op("createCall", c, DefaultContent(language), language)
    /\ createRequests' = [createRequests EXCEPT ![c] = @ \cup
           {[id |-> CreatedIds[calls["createFile"] + 1], language |-> language,
             content |-> DefaultContent(language), socket |-> socket[c]]}]
    /\ UNCHANGED << files, currentFile, editorContent, fileNotices, createFrame >>

\* createFile after its await, the request having succeeded: response.data is
\* the file the server stored, with the content it was sent.
CreateFileSucceeds(c, r) ==
    LET newFile == [id |-> r.id, content |-> r.content] IN
    /\ r \in createRequests[c]
    /\ createRequests' = [createRequests EXCEPT ![c] = @ \ {r}]
    /\ lastOp' = Op("createOk", c, newFile.id, r.language)
    /\ files' = [files EXCEPT ![c] = Append(@, newFile)]
    /\ fileNotices' = IF r.socket
                      THEN [fileNotices EXCEPT ![c] = @ \cup {[event |-> "file-created", fileId |-> newFile.id]}]
                      ELSE fileNotices
    /\ currentFile' = [currentFile EXCEPT ![c] = newFile]
    /\ editorContent' = [editorContent EXCEPT ![c] = newFile.content]
    /\ UNCHANGED << calls, createFrame >>

\* A createFile that lists the file before the answer and leaves it listed when
\* the request fails.
CreateFileFailsKeepingFile(c, r) ==
    /\ r \in createRequests[c]
    /\ createRequests' = [createRequests EXCEPT ![c] = @ \ {r}]
    /\ lastOp' = Op("createFailed", c, r.id, r.language)
    /\ files' = [files EXCEPT ![c] = Append(@, [id |-> r.id, content |-> r.content])]
    /\ UNCHANGED << currentFile, editorContent, fileNotices, calls, createFrame >>

\* createFile after its await, the request rejected or answered success=false.
CreateFileFails(c, r) ==
    /\ r \in createRequests[c]
    /\ createRequests' = [createRequests EXCEPT ![c] = @ \ {r}]
    /\ lastOp' = Op("createFailed", c, r.id, r.language)
    /\ UNCHANGED << files, currentFile, editorContent, fileNotices, calls, createFrame >>

\* ------------------------------ one member working on the room's file set,
\* the other members' file-created and file-deleted notices arriving meanwhile
FileClient == "u1"

NextFiles ==
    \/ \E fileId \in FileIds \cup {NewFile.id} : SelectLocalFile(FileClient, fileId)
    \/ \E fileId \in FileIds \cup {NewFile.id} : DeleteFileCall(FileClient, fileId)
    \/ \E r \in deleteRequests[FileClient] : DeleteFileSucceeds(FileClient, r)
    \/ \E r \in deleteRequests[FileClient] : DeleteFileFails(FileClient, r)
    \/ \E room \in Rooms, fileId \in FileIds \cup {NewFile.id} : OnFileDeleted(FileClient, room, fileId)
    \/ \E room \in Rooms : OnFileCreated(FileClient, room, NewFile)

SpecFiles == Init /\ [][NextFiles]_vars

\* ------------------------ one member editing, saving and changing the file
NextPersist ==
    \/ \E content \in EditContents : HandleContentChange(FileClient, content)
    \/ UpdateTimeoutFire(FileClient)
    \/ SaveTimeoutFire(FileClient)
    \/ \E r \in updateRequests[FileClient] : UpdateFileSucceeds(FileClient, r)
    \/ \E r \in updateRequests[FileClient] : UpdateFileFails(FileClient, r)
    \/ \E fileId \in FileIds : SelectLocalFile(FileClient, fileId)

SpecPersist == Init /\ [][NextPersist]_vars

\* ------------------------------------------- useCodeEditor: the teardown
\* A cleanup that cancels neither timer.
EditorUnmountsKeepingTimers(c) ==
    /\ editorMounted[c]
    /\ editorMounted' = [editorMounted EXCEPT ![c] = FALSE]
    /\ lastOp' = Op("editorUnmount", c, "", c)
    /\ UNCHANGED << files, currentFile, editorContent, updateTimeoutRef, saveTimeoutRef,
                    isUpdatingFromRemote, socket, inbox, updateRequests, nEdits, lastKnown,
                    typed, nSelects, syncFrame >>

\* The room view unmounts and the cleanup effect of the hook runs:
\* clearTimeout on the timer each ref holds, which is the only one pending
\* since handleContentChange cancels the earlier one before it arms the next.
EditorUnmounts(c) ==
    /\ editorMounted[c]
    /\ editorMounted' = [editorMounted EXCEPT ![c] = FALSE]
    /\ updateTimeoutRef' = [updateTimeoutRef EXCEPT ![c] = {}]
    /\ saveTimeoutRef' = [saveTimeoutRef EXCEPT ![c] = {}]
    /\ lastOp' = Op("editorUnmount", c, "", c)
    /\ UNCHANGED << files, currentFile, editorContent, isUpdatingFromRemote, socket, inbox,
                    updateRequests, nEdits, lastKnown, typed, nSelects, syncFrame >>

\* ------------------- one member editing and saving until the room view goes
NextTeardown ==
    \/ \E content \in EditContents :
          editorMounted[FileClient] /\ HandleContentChange(FileClient, content)
    \/ UpdateTimeoutFire(FileClient)
    \/ SaveTimeoutFire(FileClient)
    \/ \E r \in updateRequests[FileClient] : UpdateFileSucceeds(FileClient, r)
    \/ \E r \in updateRequests[FileClient] : UpdateFileFails(FileClient, r)
    \/ \E fileId \in FileIds :
          editorMounted[FileClient] /\ SelectLocalFile(FileClient, fileId)
    \/ EditorUnmounts(FileClient)

SpecTeardown == Init /\ [][NextTeardown]_vars

\* ------------------------- one member creating, selecting and deleting files
NextCreate ==
    \/ \E language \in Languages : CreateFileCall(FileClient, language)
    \/ \E r \in createRequests[FileClient] : CreateFileSucceeds(FileClient, r)
    \/ \E r \in createRequests[FileClient] : CreateFileFails(FileClient, r)
    \/ \E fileId \in FileIds \cup {CreatedIds[i] : i \in DOMAIN CreatedIds} :
          SelectLocalFile(FileClient, fileId)
    \/ \E fileId \in FileIds \cup {CreatedIds[i] : i \in DOMAIN CreatedIds} :
          DeleteFileCall(FileClient, fileId)
    \/ \E r \in deleteRequests[FileClient] : DeleteFileSucceeds(FileClient, r)
    \/ \E r \in deleteRequests[FileClient] : DeleteFileFails(FileClient, r)

SpecCreate == Init /\ [][NextCreate]_vars

\* The file-created event of a file this member's own createFile request made
\* the server store: it is handled while the request is still awaited, or after.
StoredFiles(c) ==
    {[id |-> r.id, content |-> r.content] : r \in createRequests[c]}
    \cup {[id |-> CreatedIds[i], content |-> DefaultContent(l)] :
             i \in {j \in DOMAIN CreatedIds : Find(files[c], CreatedIds[j]) # NoFile},
             l \in Languages}

\* --------- one member creating files, the file-created events arriving too
NextCreateShared ==
    \/ \E language \in Languages : CreateFileCall(FileClient, language)
    \/ \E r \in createRequests[FileClient] : CreateFileSucceeds(FileClient, r)
    \/ \E r \in createRequests[FileClient] : CreateFileFails(FileClient, r)
    \/ \E room \in Rooms, file \in StoredFiles(FileClient) : OnFileCreated(FileClient, room, file)
    \/ \E room \in Rooms : OnFileCreated(FileClient, room, NewFile)
    \/ \E fileId \in AllFileIds : SelectLocalFile(FileClient, fileId)

SpecCreateShared == Init /\ [][NextCreateShared]_vars

\* ------------------------------------ useCodeEditor: selecting a file fetched
\* What the steps of a fetching selectFile leave alone.
selectFrame == << files, updateTimeoutRef, saveTimeoutRef, isUpdatingFromRemote, socket, inbox,
                  updateRequests, deleteRequests, fileNotices, createRequests, loadRequests,
                  loadedFor, chatVars, pagesVars, typingOutVars, link, roomVars, apiVars, execVars, nEdits, lastKnown, typed, editorMounted >>

\* The contents the server may hold for a file that is fetched.
ServerContents == {"", "s"}

\* selectFile(fileId) for a file the local list does not hold, up to its
\* await: getFile is requested.
SelectFileCall(c, fileId) ==
    /\ Find(files[c], fileId) = NoFile
    /\ calls["selectFetch"] < MaxFetches
    /\ calls' = [calls EXCEPT !["selectFetch"] = @ + 1]
    /\ selectRequests' = [selectRequests EXCEPT ![c] = @ \cup
           {[fileId |-> fileId, n |-> calls["selectFetch"] + 1, after |-> nSelects[c]]}]
    /\ lastOp' = Op("selectCall", c, fileId, c)
    /\ UNCHANGED << currentFile, editorContent, nSelects, selectFrame >>

\* selectFile after its await, getFile having succeeded: the file fetched is
\* selected and its content put in the buffer.
SelectFileSucceeds(c, r, content) ==
    /\ r \in selectRequests[c]
    /\ selectRequests' = [selectRequests EXCEPT ![c] = @ \ {r}]
    /\ lastOp' = Op("selectFetched", c, r.fileId, c)
    /\ currentFile' = [currentFile EXCEPT ![c] = [id |-> r.fileId, content |-> content]]
    /\ editorContent' = [editorContent EXCEPT ![c] = content]
    /\ UNCHANGED << calls, nSelects, selectFrame >>

\* selectFile after its await, getFile rejected or answered success=false.
SelectFileFails(c, r) ==
    /\ r \in selectRequests[c]
    /\ selectRequests' = [selectRequests EXCEPT ![c] = @ \ {r}]
    /\ lastOp' = Op("selectFailed", c, r.fileId, c)
    /\ UNCHANGED << currentFile, editorContent, calls, nSelects, selectFrame >>

\* --------------------- one member selecting files, listed or not, while the
\* other members' file-created and file-deleted notices arrive
NextSelect ==
    \/ \E fileId \in FileIds \cup {NewFile.id} : SelectLocalFile(FileClient, fileId)
    \/ \E fileId \in FileIds \cup {NewFile.id} : SelectFileCall(FileClient, fileId)
    \/ \E r \in selectRequests[FileClient], content \in ServerContents :
          SelectFileSucceeds(FileClient, r, content)
    \/ \E r \in selectRequests[FileClient] : SelectFileFails(FileClient, r)
    \/ \E room \in Rooms, fileId \in FileIds \cup {NewFile.id} :
          OnFileDeleted(FileClient, room, fileId)
    \/ \E room \in Rooms : OnFileCreated(FileClient, room, NewFile)

SpecSelect == Init /\ [][NextSelect]_vars

\* ------------------------------------------------------------------ useChat
\* prev.some(msg => msg.id === id)
MessageExists(list, id) == \E i \in DOMAIN list : list[i].id = id

\* sendMessage(message): nothing is sent for a blank message or
\* without a channel; otherwise send-message is emitted on the channel and
\* POST /chat/send is issued, each carrying {roomId, message} and nothing else.
SendMessage(body) ==
    /\ calls["sendMessage"] < MaxSends
    /\ calls' = [calls EXCEPT !["sendMessage"] = @ + 1]
    /\ IF ~socket[ChatUser] \/ body = ""
       THEN /\ lastOp' = Op("sendRejected", ChatUser, body, roomId)
            /\ sendLog' = sendLog \cup {[body |-> body, emitted |-> FALSE, returned |-> "false"]}
            /\ UNCHANGED storeRequests
       ELSE /\ lastOp' = Op("sendCall", ChatUser, body, roomId)
            /\ storeRequests' = storeRequests \cup
                   {[path |-> "socket", body |-> body], [path |-> "api", body |-> body]}
            /\ sendLog' = sendLog \cup {[body |-> body, emitted |-> TRUE, returned |-> "pending"]}
    /\ UNCHANGED << messages, typing, typingTimers, serverLog, deliveries, chatFrame >>

\* The chat events the server sends for a message it stored: new-message to
\* the room and, on the channel path, message-sent to the sender.
ChatEvents(path, message, announce) ==
    {[event |-> "new-message", path |-> path, message |-> message, success |-> TRUE] :
        x \in IF announce THEN {1} ELSE {}}
    \cup
    {[event |-> "message-sent", path |-> path, message |-> message, success |-> TRUE] :
        x \in IF path = "socket" THEN {1} ELSE {}}

\* The ids the server may give the message of a store request: the next new
\* id, or the id under which it stored the same text on the other path. The
\* request names no message id, so nothing ties the two paths to one id.
StoreIds(req) ==
    {MsgIds[Len(serverLog) + 1]}
    \cup {serverLog[i].id : i \in {j \in DOMAIN serverLog : serverLog[j].body = req.body}}

\* sendMessage returns: true after its await of the POST, false from its catch.
Returned(log, req, value) ==
    IF req.path = "api"
    THEN {IF e.body = req.body /\ e.returned = "pending"
          THEN [e EXCEPT !.returned = value] ELSE e : e \in log}
    ELSE log

\* The server stores what one path of sendMessage handed to it, and announces
\* it; on the backup path this answers the POST, and sendMessage returns true.
ServerStores(req, id, announce) ==
    /\ req \in storeRequests
    /\ Len(serverLog) < Len(MsgIds)
    /\ id \in StoreIds(req)
    /\ announce \/ req.path = "api"
    /\ storeRequests' = storeRequests \ {req}
    /\ sendLog' = Returned(sendLog, req, "true")
    /\ serverLog' = Append(serverLog, [id |-> id, body |-> req.body, path |-> req.path])
    /\ deliveries' = deliveries \cup
           ChatEvents(req.path, [id |-> id, roomId |-> roomId, body |-> req.body], announce)
    /\ UNCHANGED << messages, typing, typingTimers, calls, lastOp, chatFrame >>

\* The server refuses what one path of sendMessage handed to it: on the
\* channel path it answers message-sent with success=false, on the backup path
\* the POST fails and sendMessage returns false.
ServerRefuses(req) ==
    /\ req \in storeRequests
    /\ storeRequests' = storeRequests \ {req}
    /\ sendLog' = Returned(sendLog, req, "false")
    /\ deliveries' = deliveries \cup
           {[event |-> "message-sent", path |-> "socket",
             message |-> [id |-> None, roomId |-> roomId, body |-> req.body],
             success |-> FALSE] : x \in IF req.path = "socket" THEN {1} ELSE {}}
    /\ UNCHANGED << messages, typing, typingTimers, serverLog, calls, lastOp, chatFrame >>

\* Another member's message, of this room or of another room the user is in.
MemberSends(room) ==
    /\ calls["otherMessage"] < Len(OtherIds)
    /\ calls' = [calls EXCEPT !["otherMessage"] = @ + 1]
    /\ deliveries' = deliveries \cup
           ChatEvents("other", [id |-> OtherIds[calls["otherMessage"] + 1],
                                roomId |-> room, body |-> "other"], TRUE)
    /\ UNCHANGED << messages, typing, typingTimers, storeRequests, sendLog, serverLog, lastOp, chatFrame >>

\* setMessages(prev => ...) of both handlers without the messageExists test.
AddMessageAlways(list, message) == Append(list, message)

\* setMessages(prev => ...) of the new-message and message-sent handlers.
AddMessage(list, message) ==
    IF MessageExists(list, message.id) THEN list ELSE Append(list, message)

\* The new-message handler registered by chatService.onNewMessage.
OnNewMessage(ev) ==
    /\ socket[ChatUser]
    /\ ev \in deliveries
    /\ ev.event = "new-message"
    /\ deliveries' = deliveries \ {ev}
    /\ lastOp' = Op("newMessage", ChatUser, ev.message.id, ev.message.roomId)
    /\ messages' = IF ev.message.roomId = roomId
                   THEN AddMessage(messages, ev.message)
                   ELSE messages
    /\ UNCHANGED << typing, typingTimers, storeRequests, sendLog, serverLog, calls, chatFrame >>

\* The message-sent handler registered by chatService.onMessageSent.
OnMessageSent(ev) ==
    /\ socket[ChatUser]
    /\ ev \in deliveries
    /\ ev.event = "message-sent"
    /\ deliveries' = deliveries \ {ev}
    /\ lastOp' = Op(IF ev.success THEN "messageSent" ELSE "messageSentFailed",
                    ChatUser, ev.message.id, ev.message.roomId)
    /\ messages' = IF ev.success /\ ev.message.roomId = roomId
                   THEN AddMessage(messages, ev.message)
                   ELSE messages
    /\ UNCHANGED << typing, typingTimers, storeRequests, sendLog, serverLog, calls, chatFrame >>

\* prev.filter(user => user.userId !== userId)
WithoutUser(list, u) == SelectSeq(list, LAMBDA t : t.userId # u)

\* setTypingUsers(prev => ...) of the user-typing handler without its filter.
ShowTypingNoFilter(list, data) ==
    IF data.isTyping THEN Append(list, data) ELSE WithoutUser(list, data.userId)

\* setTypingUsers(prev => ...) of the user-typing handler.
ShowTyping(list, data) ==
    IF data.isTyping
    THEN Append(WithoutUser(list, data.userId), data)
    ELSE WithoutUser(list, data.userId)

\* The user-typing handler registered by chatService.onTyping: it shows or
\* hides the indicator and arms a 5 s timer, which nothing cancels.
OnTyping(data) ==
    /\ socket[ChatUser]
    /\ calls["typingEvent"] < MaxTypingEvents
    /\ calls' = [calls EXCEPT !["typingEvent"] = @ + 1]
    /\ lastOp' = Op("typing", ChatUser, IF data.isTyping THEN "true" ELSE "false", data.userId)
    /\ IF data.userId = ChatUser
       THEN UNCHANGED << typing, typingTimers >>
       ELSE /\ typing' = ShowTyping(typing, data)
            /\ typingTimers' = [typingTimers EXCEPT ![data.userId] = @ + 1]
    /\ UNCHANGED << messages, storeRequests, sendLog, serverLog, deliveries, chatFrame >>

\* A 5 s timer armed by the user-typing handler fires.
TypingTimerFires(u) ==
    /\ typingTimers[u] > 0
    /\ typingTimers' = [typingTimers EXCEPT ![u] = @ - 1]
    /\ typing' = WithoutUser(typing, u)
    /\ lastOp' = Op("typingExpired", ChatUser, "", u)
    /\ UNCHANGED << messages, storeRequests, sendLog, serverLog, deliveries, calls, chatFrame >>

\* ------------------------------------------------ the chat of one member
NextChat ==
    \/ \E body \in {"", Bodies[calls["sendMessage"] + 1]} : SendMessage(body)
    \/ \E req \in storeRequests, id \in {MsgIds[i] : i \in DOMAIN MsgIds}, announce \in BOOLEAN :
          ServerStores(req, id, announce)
    \/ \E req \in storeRequests : ServerRefuses(req)
    \/ \E room \in Rooms : MemberSends(room)
    \/ \E ev \in deliveries : OnNewMessage(ev)
    \/ \E ev \in deliveries : OnMessageSent(ev)

SpecChat == Init /\ [][NextChat]_vars

\* ------------------------------------- the typing indicators of one member
NextTyping ==
    \/ \E u \in ChatUsers, isTyping \in BOOLEAN : OnTyping([userId |-> u, isTyping |-> isTyping])
    \/ \E u \in ChatUsers : TypingTimerFires(u)

SpecTyping == Init /\ [][NextTyping]_vars

\* ------------------------------------------------ useChat: history pages
\* What the steps of loadChatHistory leave alone.
pagesFrame == << typing, typingTimers, storeRequests, sendLog, typingOutVars, link, editorVars, fileIoVars, roomVars, apiVars,
                 execVars, nEdits, lastKnown, typed, editorMounted, nSelects, calls >>

\* The limit of one getChatHistory request (50 in the code).
PageLimit == 2

\* createdAt of the message the server stored under id: the server gives the
\* ids of MsgIds in the order it stores.
CreatedAt(id) == CHOOSE i \in DOMAIN MsgIds : MsgIds[i] = id

\* The ChatMessage the server sends for an entry of its log.
MessageOf(entry) == [id |-> entry.id, roomId |-> roomId, body |-> entry.body]

\* The last index of the page at an offset: the offset most recent messages are
\* skipped.
PageEnd(log, offset) == Len(log) - offset

\* The first index of that page.
PageStart(log, offset) ==
    IF PageEnd(log, offset) - PageLimit + 1 < 1 THEN 1 ELSE PageEnd(log, offset) - PageLimit + 1

\* The page the server answers with: response.data.messages, oldest first.
PageOf(log, offset) ==
    IF PageEnd(log, offset) < 1
    THEN << >>
    ELSE [i \in 1..(PageEnd(log, offset) - PageStart(log, offset) + 1) |->
             MessageOf(log[PageStart(log, offset) + i - 1])]

\* useChat just mounted: the effect has called loadChatHistory() for the first
\* page and the request is under way.
InitChatMount ==
    /\ InitEditor /\ InitFileIo /\ InitChat /\ InitTypingOut /\ InitRoom /\ InitApi /\ InitExec
    /\ InitHistory
    /\ historyRequests = {[offset |-> 0, answered |-> FALSE, page |-> << >>, hasMore |-> FALSE]}
    /\ messagesOffset = 0
    /\ hasMoreMessages = FALSE
    /\ loadingMore = FALSE

\* A member of the room posts a message: the server stores it and announces
\* it to the room.
MemberPosts ==
    /\ Len(serverLog) < MaxPosts
    /\ Len(serverLog) < Len(MsgIds)
    /\ LET entry == [id |-> MsgIds[Len(serverLog) + 1], body |-> "other", path |-> "other"] IN
       /\ serverLog' = Append(serverLog, entry)
       /\ deliveries' = deliveries \cup ChatEvents("other", MessageOf(entry), TRUE)
    /\ UNCHANGED << messages, pagesVars, lastOp, pagesFrame >>

\* The server answers a getChatHistory request from its log.
HistoryAnswered(r) ==
    /\ r \in historyRequests
    /\ ~r.answered
    /\ historyRequests' = (historyRequests \ {r}) \cup
           {[offset |-> r.offset, answered |-> TRUE, page |-> PageOf(serverLog, r.offset),
             hasMore |-> PageEnd(serverLog, r.offset) >= 1 /\ PageStart(serverLog, r.offset) > 1]}
    /\ UNCHANGED << messages, messagesOffset, hasMoreMessages, loadingMore, serverLog,
                    deliveries, lastOp, pagesFrame >>

\* loadMoreMessages: loadChatHistory(messagesOffset.current) up to its await.
LoadMoreMessages ==
    /\ hasMoreMessages
    /\ ~loadingMore
    /\ loadingMore' = TRUE
    /\ historyRequests' = historyRequests \cup
           {[offset |-> messagesOffset, answered |-> FALSE, page |-> << >>, hasMore |-> FALSE]}
    /\ lastOp' = Op("loadMore", ChatUser, "", roomId)
    /\ UNCHANGED << messages, messagesOffset, hasMoreMessages, serverLog, deliveries,
                    pagesFrame >>

\* loadChatHistory after its await, success: the first page replaces the
\* transcript, a later page is put before it.
LoadChatHistorySucceeds(r) ==
    /\ r \in historyRequests
    /\ r.answered
    /\ historyRequests' = historyRequests \ {r}
    /\ messages' = IF r.offset = 0 THEN r.page ELSE r.page \o messages
    /\ hasMoreMessages' = r.hasMore
    /\ messagesOffset' = r.offset + Len(r.page)
    /\ loadingMore' = FALSE
    /\ lastOp' = Op("historyLoaded", ChatUser, "", roomId)
    /\ UNCHANGED << serverLog, deliveries, pagesFrame >>

\* loadChatHistory after its await, failure: the error is set.
LoadChatHistoryFails(r) ==
    /\ r \in historyRequests
    /\ ~r.answered
    /\ historyRequests' = historyRequests \ {r}
    /\ loadingMore' = FALSE
    /\ lastOp' = Op("historyFailed", ChatUser, "", roomId)
    /\ UNCHANGED << messages, messagesOffset, hasMoreMessages, serverLog, deliveries,
                    pagesFrame >>

\* --------------------------- the transcript of one member: pages and events
NextHistory ==
    \/ MemberPosts
    \/ \E r \in historyRequests : HistoryAnswered(r)
    \/ LoadMoreMessages
    \/ \E r \in historyRequests : LoadChatHistorySucceeds(r)
    \/ \E r \in historyRequests : LoadChatHistoryFails(r)
    \/ \E ev \in deliveries : OnNewMessage(ev)

SpecHistory == InitChatMount /\ [][NextHistory]_vars

\* ------------------------------------------- useChat: the typing the user does
\* What the steps of setTyping and of the chat input leave alone.
typingOutFrame == << link, chatVars, pagesVars, editorVars, fileIoVars, roomVars, apiVars, execVars,
                     nEdits, lastKnown, typed, editorMounted, nSelects >>

\* A setTyping that does not clear the pending timeout.
KeepTimeout(pending) == pending

\* clearTimeout(typingTimeout.current): the timer the ref names is cancelled if
\* it is still pending.
ClearTimeout(pending) == IF pending > 0 THEN pending - 1 ELSE 0

\* The 3 s timers pending after setTyping(isTyping) on a socket.
TimeoutAfterSetTyping(pending, isTyping) ==
    IF isTyping THEN ClearTimeout(pending) + 1 ELSE ClearTimeout(pending)

\* The body of setTyping(isTyping): nothing without a socket; otherwise the
\* pending timeout is cleared, typing is emitted and, for true, the 3 s
\* auto-stop timer is armed.
SetTyping(isTyping) ==
    IF socket[ChatUser]
    THEN /\ typingTimeout' = TimeoutAfterSetTyping(typingTimeout, isTyping)
         /\ typingSent' = IF isTyping THEN "true" ELSE "false"
    ELSE UNCHANGED << typingTimeout, typingSent >>

\* setTyping(isTyping) called by the room view outside the input handler
\* (handleSendMessage after a message was sent), or by another user of the hook.
SetTypingCall(isTyping) ==
    /\ chatMounted
    /\ calls["setTyping"] < MaxTypingCalls
    /\ calls' = [calls EXCEPT !["setTyping"] = @ + 1]
    /\ SetTyping(isTyping)
    /\ lastOp' = Op("setTyping", ChatUser, IF isTyping THEN "true" ELSE "false", roomId)
    /\ UNCHANGED << inputTyping, inputTimeout, chatMounted, typingOutFrame >>

\* The 3 s timer of setTyping(true) fires: typing=false is emitted.
AutoStopFires ==
    /\ typingTimeout > 0
    /\ typingTimeout' = typingTimeout - 1
    /\ typingSent' = "false"
    /\ lastOp' = Op("autoStop", ChatUser, "false", roomId)
    /\ UNCHANGED << inputTyping, inputTimeout, chatMounted, calls, typingOutFrame >>

\* handleInputChange: typing starts with the first character typed while
\* isTyping is false; the 1 s timer of the view is cleared and armed anew.
HandleInputChange(value) ==
    /\ chatMounted
    /\ calls["inputChange"] < MaxInputs
    /\ calls' = [calls EXCEPT !["inputChange"] = @ + 1]
    /\ IF value # "" /\ ~inputTyping
       THEN /\ inputTyping' = TRUE
            /\ SetTyping(TRUE)
       ELSE UNCHANGED << inputTyping, typingTimeout, typingSent >>
    /\ inputTimeout' = ClearTimeout(inputTimeout) + 1
    /\ lastOp' = Op("inputChange", ChatUser, value, roomId)
    /\ UNCHANGED << chatMounted, typingOutFrame >>

\* The 1 s timer of handleInputChange fires: setIsTyping(false) and
\* setTyping(false). Nothing clears this timer when the view unmounts.
InputTimeoutFires ==
    /\ inputTimeout > 0
    /\ inputTimeout' = inputTimeout - 1
    /\ inputTyping' = FALSE
    /\ SetTyping(FALSE)
    /\ lastOp' = Op("inputStop", ChatUser, "false", roomId)
    /\ UNCHANGED << chatMounted, calls, typingOutFrame >>

\* The room view unmounts: the cleanup of the socket effect of useChat clears
\* the pending 3 s timeout.
ChatUnmounts ==
    /\ chatMounted
    /\ chatMounted' = FALSE
    /\ typingTimeout' = ClearTimeout(typingTimeout)
    /\ lastOp' = Op("chatUnmount", ChatUser, "", roomId)
    /\ UNCHANGED << typingSent, inputTyping, inputTimeout, calls, typingOutFrame >>

\* ------------------------------------ one member typing in the chat input
NextSetTyping ==
    \/ \E isTyping \in BOOLEAN : SetTypingCall(isTyping)
    \/ AutoStopFires
    \/ \E value \in {"", "x"} : HandleInputChange(value)
    \/ InputTimeoutFires
    \/ ChatUnmounts

\* A pending timer that is not cleared fires.
SpecSetTyping ==
    /\ Init
    /\ [][NextSetTyping]_vars
    /\ WF_vars(AutoStopFires)
    /\ WF_vars(InputTimeoutFires)

\* ----------------------------------------------------------- RoomComponent
ServerRosters == {<< "u1" >>, << "u1", "u2" >>}   \* the rosters getRoomDetails may return
roomFrame == << editorVars, fileIoVars, chatVars, pagesVars, typingOutVars, link, apiVars, execVars, nEdits, lastKnown, typed, editorMounted, nSelects >>

\* The room is opened from the dashboard: the dashboard unmounts (cleanup of
\* its useRooms effect), the room view mounts (its own useRooms effect) and
\* fetchRoomDetails starts.
EnterRoom ==
    /\ phase = "dashboard"
    /\ calls["enterRoom"] < MaxEntries
    /\ calls' = [calls EXCEPT !["enterRoom"] = @ + 1]
    /\ channels' = UseRoomsEffect(UseRoomsCleanup(channels, serviceSocket), 0,
                                  calls["enterRoom"] + 1)
    /\ custody' = Opened(Closed(custody, channels, serviceSocket, "useRooms"), "useRooms")
    /\ serviceSocket' = Len(channels) + 1
    /\ roomSocket' = 0
    /\ members' = << >>
    /\ leaving' = FALSE
    /\ phase' = "loading"
    /\ \E owner \in Clients : ownerId' = owner
    /\ roomDetails' = NoRoom
    /\ issued' = {}
    /\ lastOp' = Op("enterRoom", ChatUser, "", roomId)
    /\ UNCHANGED << applied, emitted, roomFrame >>

\* fetchRoomDetails succeeds: room and roster are set, and the socket effect
\* runs: a new socket (the one of useRooms is disconnected), join-room, and the
\* member-joined and member-left handlers.
RoomLoaded(roster) ==
    /\ phase = "loading"
    /\ members' = roster
    /\ channels' = Register(InitializeSocket(channels, serviceSocket, calls["enterRoom"]),
                            Len(channels) + 1, "RoomComponent", RoomComponentEvents)
    /\ custody' = Opened(Closed(custody, channels, serviceSocket, "RoomComponent"),
                         "RoomComponent")
    /\ emitted' = Emit(emitted, InitializeSocket(channels, serviceSocket, calls["enterRoom"]),
                       Len(channels) + 1, "join-room")
    /\ serviceSocket' = Len(channels) + 1
    /\ roomSocket' = Len(channels) + 1
    /\ roomDetails' = [ownerId |-> ownerId]
    /\ phase' = "joined"
    /\ lastOp' = Op("roomLoaded", ChatUser, "", roomId)
    /\ UNCHANGED << leaving, applied, ownerId, issued, calls, roomFrame >>

\* A socket effect that does not wait for the room: the fetch fails and the
\* socket is opened, join-room emitted and the handlers registered all the same.
RoomLoadFailsButJoins ==
    /\ phase = "loading"
    /\ phase' = "failed"
    /\ channels' = Register(InitializeSocket(channels, serviceSocket, calls["enterRoom"]),
                            Len(channels) + 1, "RoomComponent", RoomComponentEvents)
    /\ custody' = Opened(Closed(custody, channels, serviceSocket, "RoomComponent"),
                         "RoomComponent")
    /\ emitted' = Emit(emitted, InitializeSocket(channels, serviceSocket, calls["enterRoom"]),
                       Len(channels) + 1, "join-room")
    /\ serviceSocket' = Len(channels) + 1
    /\ roomSocket' = Len(channels) + 1
    /\ lastOp' = Op("roomLoadFailed", ChatUser, "", roomId)
    /\ UNCHANGED << members, leaving, applied, ownerId, roomDetails, issued, calls, roomFrame >>

\* fetchRoomDetails fails: the error view, with its leave button, is shown.
RoomLoadFails ==
    /\ phase = "loading"
    /\ phase' = "failed"
    /\ lastOp' = Op("roomLoadFailed", ChatUser, "", roomId)
    /\ UNCHANGED << channels, custody, serviceSocket, roomSocket, members, leaving, applied, emitted,
                    ownerId, roomDetails, issued, calls, roomFrame >>

\* The render after setSocket: the socket effect of useChat emits join-room
\* and registers its handlers on the socket of the room view, then the socket
\* effect of useCodeEditor registers its own.
HooksAttach ==
    /\ phase = "joined"
    /\ emitted' = Emit(emitted, channels, roomSocket, "join-room")
    /\ channels' = Register(Register(channels, roomSocket, "useChat", UseChatEvents),
                            roomSocket, "useCodeEditor", UseCodeEditorEvents)
    /\ phase' = "attached"
    /\ lastOp' = Op("hooksAttached", ChatUser, "", roomId)
    /\ UNCHANGED << custody, serviceSocket, roomSocket, members, leaving, applied, ownerId,
                    roomDetails,
                    issued, calls, roomFrame >>

\* The socket effect of useCodeEditor runs again because another file is
\* selected: its cleanup, then its handlers anew.
EditorEffectReruns ==
    /\ phase = "attached"
    /\ channels' = Register(Unregister(channels, roomSocket, EditorListeners),
                            roomSocket, "useCodeEditor", UseCodeEditorEvents)
    /\ lastOp' = Op("editorEffect", ChatUser, "", roomId)
    /\ UNCHANGED << phase, custody, serviceSocket, roomSocket, members, leaving, applied, emitted,
                    ownerId, roomDetails, issued, calls, roomFrame >>

\* isRoomOwner: user?.id === room?.ownerId.
IsRoomOwner == roomDetails.ownerId = ChatUser

\* What the server may answer to the request: success, an answer that says
\* success: false, or an error status (the request helper throws).
Answers == {"ok", "refused", "error"}

\* handleLeaveOrDeleteRoom up to its await: deleteRoom for the owner,
\* roomService.leaveRoom otherwise.
LeaveOrDeleteCall ==
    /\ phase \in {"failed", "joined", "attached"}
    /\ ~leaving
    /\ leaving' = TRUE
    /\ issued' = {IF IsRoomOwner THEN "delete-room" ELSE "leave-room"}
    /\ lastOp' = Op("leaveCall", ChatUser, "", roomId)
    /\ UNCHANGED << phase, channels, custody, serviceSocket, roomSocket, members, applied, emitted,
                    ownerId, roomDetails, calls, roomFrame >>

\* The answers after which handleLeaveOrDeleteRoom goes on to navigate:
\* deleteRoom returned true, or roomService.leaveRoom did not throw.
GoesBack(requests, answer) ==
    \/ "delete-room" \in requests /\ answer = "ok"
    \/ "leave-room" \in requests /\ answer \in {"ok", "refused"}

\* The request fails: an error is set and the room view stays mounted.
LeaveOrDeleteFails(answer) ==
    /\ leaving
    /\ ~GoesBack(issued, answer)
    /\ leaving' = FALSE
    /\ issued' = {}
    /\ lastOp' = Op("leaveFailed", ChatUser, answer, roomId)
    /\ UNCHANGED << phase, channels, custody, serviceSocket, roomSocket, members, applied, emitted,
                    ownerId, roomDetails, calls, roomFrame >>

\* The cleanups of the room view in the order of its hooks: useRooms, useChat,
\* useCodeEditor, then the socket effect of the room view itself (by then
\* roomService holds no socket, so its removeAllListeners does nothing).
RoomCleanup(chs, svc, room, attached) ==
    LET afterRooms == UseRoomsCleanup(chs, svc)
        afterHooks == IF attached
                      THEN Unregister(Unregister(afterRooms, room, MessageListeners),
                                      room, EditorListeners)
                      ELSE afterRooms
    IN  Disconnect(RemoveAllListeners(afterHooks, 0), room)

\* The leave-room events of those cleanups: the cleanup of useChat emits one
\* after the cleanup of useRooms has run, the cleanup of the socket effect of the
\* room view emits one after the cleanups of the hooks and before its own
\* disconnect.
CleanupEmits(log, chs, svc, room, attached) ==
    LET afterRooms == UseRoomsCleanup(chs, svc)
        afterChat == IF attached THEN Emit(log, afterRooms, room, "leave-room") ELSE log
    IN  Emit(afterChat, afterRooms, room, "leave-room")

\* Who closes what in those cleanups: the cleanup of useRooms calls
\* roomService.disconnectSocket, then the cleanup of the socket effect of the
\* room view calls socketInstance.disconnect.
CleanupClosed(cu, chs, svc, room) ==
    Closed(Closed(cu, chs, svc, "useRooms"), UseRoomsCleanup(chs, svc), room, "RoomComponent")

\* The request succeeds: onBackToDashboard unmounts the room view and mounts
\* the dashboard, whose useRooms effect opens a socket of its own.
LeaveOrDeleteSucceeds(answer) ==
    /\ leaving
    /\ GoesBack(issued, answer)
    /\ issued' = {}
    /\ roomDetails' = NoRoom
    /\ channels' = UseRoomsEffect(
                       RoomCleanup(channels, serviceSocket, roomSocket, phase = "attached"),
                       0, 0)
    /\ custody' = Opened(CleanupClosed(custody, channels, serviceSocket, roomSocket), "useRooms")
    /\ serviceSocket' = Len(channels) + 1
    /\ roomSocket' = 0
    /\ members' = << >>
    /\ leaving' = FALSE
    /\ phase' = "dashboard"
    /\ emitted' = CleanupEmits(emitted, channels, serviceSocket, roomSocket,
                               phase = "attached")
    /\ lastOp' = Op("leaveOk", ChatUser, answer, roomId)
    /\ UNCHANGED << applied, ownerId, calls, roomFrame >>

\* How many handlers of the hook for the event are on sockets still connected:
\* each of them runs when the server sends the event.
RECURSIVE Invoked(_, _, _)
Invoked(chs, hook, event) ==
    IF chs = << >> \/ << hook, event >> \notin Registrations
    THEN 0
    ELSE (IF Head(chs).connected THEN Head(chs).handlers[<< hook, event >>] ELSE 0)
         + Invoked(Tail(chs), hook, event)

\* The member-joined handler of the room view.
OnMemberJoined(list, data) ==
    IF data.roomId = roomId THEN Append(list, data.userId) ELSE list

\* The member-left handler of the room view.
OnMemberLeft(list, data) ==
    IF data.roomId = roomId THEN SelectSeq(list, LAMBDA m : m # data.userId) ELSE list

\* The handlers of the room view for a roster event, run n times.
RECURSIVE RosterAfter(_, _, _, _)
RosterAfter(list, event, data, n) ==
    IF n = 0
    THEN list
    ELSE RosterAfter(IF event = "member-joined"
                     THEN OnMemberJoined(list, data)
                     ELSE OnMemberLeft(list, data),
                     event, data, n - 1)

\* The server sends member-joined or member-left.
MemberEvent(event, data) ==
    /\ phase \in {"joined", "attached"}
    /\ calls["memberEvent"] < MaxMemberEvents
    /\ calls' = [calls EXCEPT !["memberEvent"] = @ + 1]
    /\ applied' = [h \in Hooks |-> Invoked(channels, h, event)]
    /\ members' = RosterAfter(members, event, data, Invoked(channels, "RoomComponent", event))
    /\ lastOp' = Op(event, ChatUser, data.userId, data.roomId)
    /\ UNCHANGED << phase, channels, custody, serviceSocket, roomSocket, leaving, emitted, ownerId,
                    roomDetails, issued, roomFrame >>

\* The server sends an event of the chat or of the editor.
ServerEvent(event) ==
    /\ phase \in {"joined", "attached"}
    /\ applied' = [h \in Hooks |-> Invoked(channels, h, event)]
    /\ lastOp' = Op("serverEvent", ChatUser, event, roomId)
    /\ UNCHANGED << phase, channels, custody, serviceSocket, roomSocket, members, leaving, emitted,
                    ownerId, roomDetails, issued, calls, roomFrame >>

\* ------------------------------------------- one member entering and leaving
NextRoom ==
    \/ EnterRoom
    \/ \E roster \in ServerRosters : RoomLoaded(roster)
    \/ RoomLoadFails
    \/ HooksAttach
    \/ EditorEffectReruns
    \/ LeaveOrDeleteCall
    \/ \E answer \in Answers : LeaveOrDeleteFails(answer)
    \/ \E answer \in Answers : LeaveOrDeleteSucceeds(answer)
    \/ \E event \in RoomComponentEvents, room \in Rooms, u \in Clients :
          MemberEvent(event, [roomId |-> room, userId |-> u])
    \/ \E event \in UseChatEvents \cup UseCodeEditorEvents : ServerEvent(event)

SpecRoom == Init /\ [][NextRoom]_vars

\* ------------------------------------------ the socket's transport is lost
\* What a change of the transport leaves alone: everything but the link.
linkFrame == << editorVars, fileIoVars, chatVars, pagesVars, typingOutVars, roomVars, apiVars,
                execVars, nEdits, lastKnown, typed, editorMounted, nSelects >>

\* The transport of the room's socket is lost: the 'disconnect' handler of
\* initializeSocket logs the reason.
ChannelDrops ==
    /\ phase = "attached"
    /\ link = "up"
    /\ calls["channelDrop"] < MaxDrops
    /\ calls' = [calls EXCEPT !["channelDrop"] = @ + 1]
    /\ link' = "down"
    /\ lastOp' = Op("disconnected", ChatUser, "", roomId)
    /\ UNCHANGED linkFrame

\* socket.io reconnects the socket: the 'connect' handler of initializeSocket
\* logs the socket id. The socket object is the one the hooks were given, so
\* no effect runs again.
ChannelReconnects ==
    /\ link = "down"
    /\ link' = "up"
    /\ lastOp' = Op("reconnected", ChatUser, "", roomId)
    /\ UNCHANGED << calls, linkFrame >>

\* A member posts while this client's transport is down: the server stores the
\* message, and its new-message event does not reach this client.
MemberPostsUnheard ==
    /\ link = "down"
    /\ Len(serverLog) < MaxPosts
    /\ Len(serverLog) < Len(MsgIds)
    /\ serverLog' = Append(serverLog, [id |-> MsgIds[Len(serverLog) + 1], body |-> "other",
                                        path |-> "other"])
    /\ UNCHANGED << messages, deliveries, pagesVars, lastOp, pagesFrame >>

\* ------------------ one member in the room, the transport lost and restored
NextReconnect ==
    \/ EnterRoom
    \/ \E roster \in ServerRosters : RoomLoaded(roster)
    \/ HooksAttach
    \/ ChannelDrops
    \/ ChannelReconnects
    \/ phase = "attached" /\ link = "up" /\ MemberPosts
    \/ MemberPostsUnheard
    \/ \E r \in historyRequests : phase = "attached" /\ HistoryAnswered(r)
    \/ \E r \in historyRequests : phase = "attached" /\ LoadChatHistorySucceeds(r)
    \/ \E r \in historyRequests : phase = "attached" /\ LoadChatHistoryFails(r)
    \/ phase = "attached" /\ LoadMoreMessages
    \/ \E ev \in deliveries : phase = "attached" /\ OnNewMessage(ev)

\* Requests are answered, answers and events are handled, and socket.io
\* reconnects a socket whose transport was lost. The history request of the
\* mount is followed from the moment the room is shown.
SpecReconnect ==
    /\ InitChatMount
    /\ [][NextReconnect]_vars
    /\ WF_vars(ChannelReconnects)
    /\ WF_vars(\E r \in historyRequests : phase = "attached" /\ HistoryAnswered(r))
    /\ WF_vars(\E r \in historyRequests : phase = "attached" /\ LoadChatHistorySucceeds(r))
    /\ WF_vars(\E ev \in deliveries : phase = "attached" /\ OnNewMessage(ev))

\* ------------------------------------------- useCodeEditor: loading files
\* The value of loadedFor before the load effect has run at all.
NotRun == [id |-> "unset", content |-> ""]

\* The lists getFiles may answer with.
ServerLists == {<< >>, ServerFiles, Append(ServerFiles, NewFile)}

\* What the load steps leave alone.
loadFrame == << updateTimeoutRef, saveTimeoutRef, isUpdatingFromRemote, socket, inbox,
                updateRequests, deleteRequests, fileNotices, createRequests, selectRequests,
                chatVars, pagesVars, typingOutVars, link, roomVars, apiVars, execVars, nEdits, lastKnown, typed, editorMounted, nSelects >>

\* The hook just mounted: no file listed or selected, no effect run yet.
InitMount ==
    /\ files = [c \in Clients |-> << >>]
    /\ currentFile = [c \in Clients |-> NoFile]
    /\ editorContent = [c \in Clients |-> ""]
    /\ updateTimeoutRef = [c \in Clients |-> {}]
    /\ saveTimeoutRef = [c \in Clients |-> {}]
    /\ isUpdatingFromRemote = [c \in Clients |-> FALSE]
    /\ socket = [c \in Clients |-> TRUE]
    /\ inbox = [c \in Clients |-> << >>]
    /\ updateRequests = [c \in Clients |-> {}]
    /\ deleteRequests = [c \in Clients |-> {}]
    /\ fileNotices = [c \in Clients |-> {}]
    /\ createRequests = [c \in Clients |-> {}]
    /\ loadRequests = [c \in Clients |-> {}]
    /\ loadedFor = [c \in Clients |-> NotRun]
    /\ selectRequests = [c \in Clients |-> {}]
    /\ InitChat /\ InitPages /\ InitTypingOut /\ InitRoom /\ InitApi /\ InitExec /\ InitHistory

\* loadFiles() up to its await: getFiles is requested; the closure keeps the
\* currentFile of the render the callback was made in.
LoadFilesCall(c, by) ==
    /\ loadRequests' = [loadRequests EXCEPT ![c] = @ \cup
           {[currentFile |-> currentFile[c], by |-> by,
             n |-> calls["loadFiles"] + calls["refreshFiles"] + 1]}]
    /\ lastOp' = Op(by, c, "", c)
    /\ UNCHANGED << files, currentFile, editorContent, loadFrame >>

\* The load effect, deps [roomId, loadFiles]: it runs after the mount and after
\* every render in which loadFiles is a new callback, that is, in which
\* currentFile has changed (loadFiles has deps [roomId, currentFile]).
LoadFilesEffect(c) ==
    /\ loadedFor[c] # currentFile[c]
    /\ calls["loadFiles"] < MaxLoads
    /\ calls' = [calls EXCEPT !["loadFiles"] = @ + 1]
    /\ loadedFor' = [loadedFor EXCEPT ![c] = currentFile[c]]
    /\ LoadFilesCall(c, "loadEffect")

\* refreshFiles(): loadFiles called explicitly.
RefreshFiles(c) ==
    /\ calls["refreshFiles"] < MaxRefreshes
    /\ calls' = [calls EXCEPT !["refreshFiles"] = @ + 1]
    /\ UNCHANGED loadedFor
    /\ LoadFilesCall(c, "refreshFiles")

\* loadFiles after its await, success: the list is replaced by the answer, and
\* with no file selected in the closure the first file of the answer is selected.
LoadFilesSucceeds(c, r, list) ==
    /\ r \in loadRequests[c]
    /\ loadRequests' = [loadRequests EXCEPT ![c] = @ \ {r}]
    /\ lastOp' = Op("loadOk", c, "", c)
    /\ files' = [files EXCEPT ![c] = list]
    /\ IF r.currentFile = NoFile /\ list # << >>
       THEN /\ currentFile' = [currentFile EXCEPT ![c] = list[1]]
            /\ editorContent' = [editorContent EXCEPT ![c] = list[1].content]
       ELSE UNCHANGED << currentFile, editorContent >>
    /\ UNCHANGED << loadedFor, calls, loadFrame >>

\* loadFiles after its await, the request rejected or answered success=false.
LoadFilesFails(c, r) ==
    /\ r \in loadRequests[c]
    /\ loadRequests' = [loadRequests EXCEPT ![c] = @ \ {r}]
    /\ lastOp' = Op("loadFailed", c, "", c)
    /\ UNCHANGED << files, currentFile, editorContent, loadedFor, calls, loadFrame >>

\* ------------------------------- one member entering and selecting files
NextLoad ==
    \/ LoadFilesEffect(FileClient)
    \/ RefreshFiles(FileClient)
    \/ \E r \in loadRequests[FileClient], list \in ServerLists :
          LoadFilesSucceeds(FileClient, r, list)
    \/ \E r \in loadRequests[FileClient] : LoadFilesFails(FileClient, r)
    \/ \E fileId \in FileIds \cup {NewFile.id} : SelectLocalFile(FileClient, fileId)

SpecLoad == InitMount /\ [][NextLoad]_vars

\* ------------------------------------------------ ApiService and apiCall
apiFrame == << editorVars, fileIoVars, chatVars, pagesVars, typingOutVars, link, roomVars, execVars, nEdits, lastKnown, typed, editorMounted, nSelects,
              calls >>

\* request / apiCall up to the first await: the request goes out with the
\* stored token as bearer.
Request(q, via) ==
    /\ ~atLogin
    /\ reqPc[q] = "idle"
    /\ reqSent[q] < MaxAttempts
    /\ reqVia' = [reqVia EXCEPT ![q] = via]
    /\ reqToken' = [reqToken EXCEPT ![q] = accessToken]
    /\ reqSent' = [reqSent EXCEPT ![q] = @ + 1]
    /\ reqPc' = [reqPc EXCEPT ![q] = "first"]
    /\ lastOp' = Op("request", q, via, None)
    /\ UNCHANGED << reqRefreshes, accessToken, refreshTokenStored, atLogin, apiFrame >>

\* Where a request stands after the answer to its first send: done on 2xx,
\* refreshing on 401, failed with the server's error otherwise.
AfterFirst(status) ==
    IF status = 401 THEN "refreshing" ELSE IF status = 200 THEN "done" ELSE "failed"

\* The answer to the first send; on 401 the refresh call goes out.
FirstResponse(q, status) ==
    /\ reqPc[q] = "first"
    /\ reqPc' = [reqPc EXCEPT ![q] = AfterFirst(status)]
    /\ reqRefreshes' = [reqRefreshes EXCEPT ![q] = IF status = 401 THEN @ + 1 ELSE @]
    /\ lastOp' = Op("firstResponse", q, reqVia[q], None)
    /\ UNCHANGED << reqVia, reqSent, reqToken, accessToken, refreshTokenStored, atLogin,
                    apiFrame >>

\* removeAccessToken that removes nothing.
KeepAccessToken(token) == token

\* localStorage.removeItem('accessToken')
RemoveAccessToken(token) == "none"

\* The catch of the request helper: the tokens are removed, the page is sent to
\* the login entry point and the call throws the authentication error.
AuthenticationFails(q) ==
    /\ accessToken' = RemoveAccessToken(accessToken)
    /\ refreshTokenStored' = FALSE
    /\ atLogin' = TRUE
    /\ reqPc' = [reqPc EXCEPT ![q] = "authFailed"]

\* The catch of apiCall: logout() is called and its POST /auth/logout goes out.
LogoutStarts(q) ==
    /\ reqPc' = [reqPc EXCEPT ![q] = "loggingOut"]
    /\ UNCHANGED << accessToken, refreshTokenStored, atLogin >>

\* The catch a failed refresh or retry of request q runs into.
Catch(q) ==
    IF reqVia[q] = "request" THEN AuthenticationFails(q) ELSE LogoutStarts(q)

\* The refresh call is answered: on success the new token is stored and the
\* original request is sent once more with it; on failure the catch runs.
RefreshResponse(q, ok) ==
    /\ reqPc[q] = "refreshing"
    /\ reqSent[q] < MaxAttempts
    /\ IF ok
       THEN /\ accessToken' = "t1"
            /\ reqToken' = [reqToken EXCEPT ![q] = "t1"]
            /\ reqSent' = [reqSent EXCEPT ![q] = @ + 1]
            /\ reqPc' = [reqPc EXCEPT ![q] = "retry"]
            /\ lastOp' = Op("refreshed", q, reqVia[q], None)
            /\ UNCHANGED << refreshTokenStored, atLogin >>
       ELSE /\ Catch(q)
            /\ lastOp' = Op("refreshFailed", q, reqVia[q], None)
            /\ UNCHANGED << reqToken, reqSent >>
    /\ UNCHANGED << reqVia, reqRefreshes, apiFrame >>

\* A retry answered 401 starts another refresh.
AfterRetryRefreshAgain(status) ==
    IF status = 401 THEN "refreshing" ELSE IF status = 200 THEN "done" ELSE "catch"

\* Where a request stands after the answer to its retry: done on 2xx, in the
\* catch otherwise.
AfterRetry(status) ==
    IF status = 200 THEN "done" ELSE "catch"

\* response.status of an answer, as the history records it.
StatusText(status) ==
    IF status = 200 THEN "200" ELSE IF status = 401 THEN "401" ELSE "500"

\* The answer to the retry.
RetryResponse(q, status) ==
    /\ reqPc[q] = "retry"
    /\ lastOp' = Op("retryResponse", q, reqVia[q], StatusText(status))
    /\ IF AfterRetry(status) = "catch"
       THEN /\ Catch(q)
            /\ UNCHANGED reqRefreshes
       ELSE /\ reqPc' = [reqPc EXCEPT ![q] = AfterRetry(status)]
            /\ reqRefreshes' = [reqRefreshes EXCEPT ![q] =
                                   IF AfterRetry(status) = "refreshing" THEN @ + 1 ELSE @]
            /\ UNCHANGED << accessToken, refreshTokenStored, atLogin >>
    /\ UNCHANGED << reqVia, reqSent, reqToken, apiFrame >>

\* logout() after its await, whatever the answer: its finally removes the
\* tokens and sends the page to the login entry point; apiCall then throws the
\* authentication error.
LogoutFinally(q) ==
    /\ reqPc[q] = "loggingOut"
    /\ AuthenticationFails(q)
    /\ lastOp' = Op("loggedOut", q, reqVia[q], None)
    /\ UNCHANGED << reqVia, reqSent, reqRefreshes, reqToken, apiFrame >>

\* -------------------------------------------- requests through the helpers
NextApi ==
    \/ \E q \in Requests, via \in Helpers : Request(q, via)
    \/ \E q \in Requests, status \in Statuses : FirstResponse(q, status)
    \/ \E q \in Requests, ok \in BOOLEAN : RefreshResponse(q, ok)
    \/ \E q \in Requests, status \in Statuses : RetryResponse(q, status)
    \/ \E q \in Requests : LogoutFinally(q)

SpecApi == Init /\ [][NextApi]_vars

\* ------------------------------------------- useCodeExecution: running code
execFrame == << editorVars, fileIoVars, chatVars, pagesVars, typingOutVars, link, roomVars, apiVars, nEdits, lastKnown, typed, editorMounted, nSelects >>

\* The result the server computes for the n-th call.
ResultOf(n) == n

\* executeCode up to its await: the n-th call goes out.
ExecuteCodeCall(n) ==
    /\ n = calls["executeCode"] + 1
    /\ n <= MaxRuns
    /\ calls' = [calls EXCEPT !["executeCode"] = n]
    /\ executing' = TRUE
    /\ executionError' = FALSE
    /\ runs' = [runs EXCEPT ![n] = "running"]
    /\ UNCHANGED << lastResult, execFrame >>

\* handleRunCode from the Run button, disabled without a file and while executing.
RunButton(c) ==
    /\ currentFile[c] # NoFile
    /\ ~executing
    /\ ExecuteCodeCall(calls["executeCode"] + 1)
    /\ lastOp' = Op("runButton", c, "", roomId)

\* handleRunCode from the Ctrl+Enter action of the editor.
RunShortcut(c) ==
    /\ currentFile[c] # NoFile
    /\ ExecuteCodeCall(calls["executeCode"] + 1)
    /\ lastOp' = Op("runShortcut", c, "", roomId)

\* setLastResult(response.data).
SetLastResult(kept, n) == ResultOf(n)

\* The n-th call is answered with success and data.
ExecuteCodeSucceeds(n) ==
    /\ runs[n] = "running"
    /\ runs' = [runs EXCEPT ![n] = "succeeded"]
    /\ lastResult' = SetLastResult(lastResult, n)
    /\ executing' = FALSE
    /\ lastOp' = Op("executeOk", ChatUser, "", roomId)
    /\ UNCHANGED << executionError, calls, execFrame >>

\* The n-th call fails, or is answered without data: the error is set.
ExecuteCodeFails(n) ==
    /\ runs[n] = "running"
    /\ runs' = [runs EXCEPT ![n] = "failed"]
    /\ executionError' = TRUE
    /\ executing' = FALSE
    /\ lastOp' = Op("executeFailed", ChatUser, "", roomId)
    /\ UNCHANGED << lastResult, calls, execFrame >>

\* clearResult.
ClearResult ==
    /\ lastResult # NoResult
    /\ lastResult' = NoResult
    /\ lastOp' = Op("clearResult", ChatUser, "", roomId)
    /\ UNCHANGED << executing, executionError, runs, calls, execFrame >>

\* clearError.
ClearError ==
    /\ executionError
    /\ executionError' = FALSE
    /\ lastOp' = Op("clearError", ChatUser, "", roomId)
    /\ UNCHANGED << executing, lastResult, runs, calls, execFrame >>

NextRun ==
    \/ RunButton(ChatUser)
    \/ RunShortcut(ChatUser)
    \/ \E n \in 1..MaxRuns : ExecuteCodeSucceeds(n)
    \/ \E n \in 1..MaxRuns : ExecuteCodeFails(n)
    \/ ClearResult
    \/ ClearError

SpecRun == Init /\ [][NextRun]_vars

\* ================================================================ claims
\* A step that is the code-updated handler of client c receiving `change`.
IsDelivery(c) ==
    /\ lastOp'.op \in {"remoteApplied", "remoteIgnored"}
    /\ lastOp'.client = c
    /\ inbox[c] # << >>

\* The editor state of client c that an ignored event must leave alone.
EditorUnchanged(c) ==
    /\ editorContent'[c] = editorContent[c]
    /\ files'[c] = files[c]
    /\ currentFile'[c] = currentFile[c]
    /\ updateTimeoutRef'[c] = updateTimeoutRef[c]
    /\ saveTimeoutRef'[c] = saveTimeoutRef[c]
    /\ isUpdatingFromRemote'[c] = isUpdatingFromRemote[c]

\* Nothing is scheduled or sent by the step: no timer is armed or cancelled, no
\* update request is issued, no code-change reaches another member.
NothingScheduled(c) ==
    /\ updateTimeoutRef' = updateTimeoutRef
    /\ saveTimeoutRef' = saveTimeoutRef
    /\ updateRequests' = updateRequests
    /\ \A d \in Clients \ {c} : inbox'[d] = inbox[d]

\* C1 (as claimed): with a file selected and the channel attached, every call of
\* handleContentChange leaves exactly one broadcast pending, carrying the call's
\* content, and the pending broadcast, when it fires, emits exactly one
\* code-change with that content: a burst of calls, each made while the previous
\* call's timer is pending, therefore emits one event with the last call's content.
C1_BurstEmitsLastContent ==
    [][\A c \in Clients :
        /\ (/\ lastOp'.op = "edit" /\ lastOp'.client = c
            /\ currentFile[c] # NoFile /\ socket[c])
           => updateTimeoutRef'[c] = {[fileId |-> currentFile[c].id,
                                       content |-> lastOp'.content, socket |-> TRUE]}
        /\ (/\ lastOp'.op = "broadcast" /\ lastOp'.client = c
            /\ \A t \in updateTimeoutRef[c] : t.fileId # None /\ t.socket)
           => /\ updateTimeoutRef'[c] = {}
              /\ \A d \in Clients \ {c} :
                    /\ Len(inbox'[d]) = Len(inbox[d]) + 1
                    /\ inbox'[d][Len(inbox'[d])].content = lastOp'.content
                    /\ inbox'[d][Len(inbox'[d])].userId = c
      ]_vars

\* C2: a code-updated event for the current room and the selected file, from
\* another user, leaves the buffer equal to its content and schedules nothing;
\* the change callback the editor fires for that update is swallowed, so that
\* it schedules nothing either.
C2_RemoteEditAppliedSilently ==
    [][\A c \in Clients :
        /\ (/\ IsDelivery(c)
            /\ Head(inbox[c]).roomId = roomId
            /\ Head(inbox[c]).fileId = IdOf(currentFile[c])
            /\ Head(inbox[c]).userId # c)
           => /\ editorContent'[c] = Head(inbox[c]).content
              /\ NothingScheduled(c)
        /\ (/\ lastOp.op = "remoteApplied" /\ lastOp.client = c
            /\ lastOp'.op = "edit" /\ lastOp'.client = c)
           => /\ editorContent'[c] = editorContent[c]
              /\ NothingScheduled(c)
      ]_vars

C2_Witness ==
    \E c \in Clients :
        /\ lastOp = Op("remoteApplied", c, "a", CHOOSE d \in Clients : d # c)
        /\ editorContent[c] = "a"
        /\ updateTimeoutRef[c] = {} /\ saveTimeoutRef[c] = {}

\* C3: a code-updated event whose userId is the local user's changes nothing of
\* the editor: buffer, file list, selection, pending timers, suppression flag.
C3_OwnEventIsNoOp ==
    [][\A c \in Clients :
        (IsDelivery(c) /\ Head(inbox[c]).userId = c)
           => EditorUnchanged(c) /\ NothingScheduled(c)
      ]_vars

C3_Witness ==
    \E c \in Clients :
        /\ lastOp = Op("remoteIgnored", c, "a", c)
        /\ IdOf(currentFile[c]) = "f1"
        /\ nSelects[c] = 0
        /\ editorContent[c] = "b"

\* Every pending broadcast has fired and every emitted code-change was delivered.
Quiescent ==
    \A c \in Clients : updateTimeoutRef[c] = {} /\ inbox[c] = << >>

EntriesOf(b) == Cardinality({i \in DOMAIN messages : messages[i].body = b})

\* The number of typing indicators shown for user u.
IndicatorsOf(u) == Cardinality({i \in DOMAIN typing : typing[i].userId = u})

\* C5: when a new-message event of the room, or a message-sent event of the
\* room reporting success, is handled, the transcript is left unchanged if it
\* already holds a message with the event's id, and otherwise it grows by
\* exactly that one message, appended at the end.
C5_MessageEventDeduplicated ==
    [][(/\ lastOp'.op \in {"newMessage", "messageSent"}
        /\ lastOp'.from = roomId)
          => IF MessageExists(messages, lastOp'.content)
             THEN messages' = messages
             ELSE /\ Len(messages') = Len(messages) + 1
                  /\ SubSeq(messages', 1, Len(messages)) = messages
                  /\ messages'[Len(messages')].id = lastOp'.content
      ]_vars

\* Both the new-message and the message-sent event of one stored message have
\* been handled, and the transcript holds that message once.
C5_Witness ==
    /\ lastOp.op \in {"newMessage", "messageSent"}
    /\ lastOp.from = roomId
    /\ Len(messages) = 1
    /\ messages[1].id = lastOp.content
    /\ \E i \in DOMAIN serverLog :
          serverLog[i].id = lastOp.content /\ serverLog[i].path = "socket"
    /\ \A ev \in deliveries : ev.message.id # lastOp.content

\* C6 (as claimed): once both paths of one sendMessage call have stored the
\* message and every event has been handled, the transcript holds exactly one
\* entry for that message.
C6_OneEntryPerSend ==
    \A k \in DOMAIN Bodies :
        (/\ \E i \in DOMAIN serverLog :
               serverLog[i].body = Bodies[k] /\ serverLog[i].path = "socket"
         /\ \E i \in DOMAIN serverLog :
               serverLog[i].body = Bodies[k] /\ serverLog[i].path = "api"
         /\ deliveries = {})
            => EntriesOf(Bodies[k]) = 1

\* C7: the typing list never holds two indicators for one user nor one for the
\* local user; an isTyping=true event for another user leaves exactly one
\* indicator for that user, also when one was already shown; every indicator
\* shown has a 5 s timer pending, and that timer's firing removes it.
C7_TypingIndicators ==
    /\ [](/\ \A u \in ChatUsers : IndicatorsOf(u) <= 1
          /\ IndicatorsOf(ChatUser) = 0
          /\ \A u \in ChatUsers : IndicatorsOf(u) = 1 => typingTimers[u] > 0
          /\ lastOp.op = "typingExpired" => IndicatorsOf(lastOp.from) = 0)
    /\ [][(/\ lastOp'.op = "typing" /\ lastOp'.content = "true"
           /\ lastOp'.from # ChatUser)
             => Cardinality({i \in DOMAIN typing' : typing'[i].userId = lastOp'.from}) = 1
         ]_vars

\* isTyping=true has arrived twice for u2 with no other event, and u2 has one
\* indicator.
C7_Witness ==
    /\ lastOp = Op("typing", ChatUser, "true", "u2")
    /\ calls["typingEvent"] = 2
    /\ typingTimers["u2"] = 2
    /\ typingTimers["u3"] = 0
    /\ IndicatorsOf("u2") = 1

\* C8 (as claimed): when deleteFile(id) succeeds while id is the selected file,
\* the selection afterwards is a file of the local list if the list holds one,
\* and no file with an empty buffer otherwise; it is never the deleted id.
C8_DeleteSelectedFallsBack ==
    [][\A c \in Clients :
        (/\ lastOp'.op = "deleteOk" /\ lastOp'.client = c
         /\ IdOf(currentFile[c]) = lastOp'.content)
           => /\ IdOf(currentFile'[c]) # lastOp'.content
              /\ IF files'[c] = << >>
                 THEN currentFile'[c] = NoFile /\ editorContent'[c] = ""
                 ELSE /\ currentFile'[c] # NoFile
                      /\ Find(files'[c], IdOf(currentFile'[c])) # NoFile
      ]_vars

\* The sockets created while the room view was mounted.
SessionChannels == {i \in DOMAIN channels : channels[i].session # 0}

C10_RosterKeyedByUserId ==
    \A u \in Clients : Cardinality({i \in DOMAIN members : members[i] = u}) <= 1

\* C11: a request is put on the wire at most twice and the refresh endpoint is
\* called at most once for it; a 401 to the first send is followed by exactly
\* one refresh call, and a successful refresh by exactly one retry.
C11_OneRefreshOneRetry ==
    \A q \in Requests :
        /\ reqSent[q] <= 2
        /\ reqRefreshes[q] <= 1
        /\ reqPc[q] = "refreshing" => (reqSent[q] = 1 /\ reqRefreshes[q] = 1)
        /\ reqPc[q] = "retry" => (reqSent[q] = 2 /\ reqRefreshes[q] = 1)
        /\ reqPc[q] \in {"authFailed", "loggingOut"} => reqRefreshes[q] = 1

\* The retry of a request was answered 401 as well, and the authentication
\* failure has been surfaced.
C11_Witness ==
    /\ lastOp = Op("retryResponse", "q1", "request", "401")
    /\ reqPc["q1"] = "authFailed"
    /\ reqSent["q1"] = 2
    /\ reqRefreshes["q1"] = 1

\* C20: the step in which a request ends with the authentication error removes
\* the stored access and refresh tokens and sends the page to the login entry
\* point; a failed refresh leads to that step (through logout() for apiCall)
\* and the request is never sent again nor completed.
C20_RefreshFailureResets ==
    /\ [][\A q \in Requests :
            (reqPc[q] # "authFailed" /\ reqPc'[q] = "authFailed")
               => (accessToken' = "none" /\ ~refreshTokenStored' /\ atLogin')
         ]_vars
    /\ [][\A q \in Requests :
            (lastOp'.op = "refreshFailed" /\ lastOp'.client = q)
               => reqPc'[q] = (IF reqVia[q] = "request" THEN "authFailed" ELSE "loggingOut")
         ]_vars
    /\ [][\A q \in Requests :
            reqPc[q] \in {"loggingOut", "authFailed"}
               => (reqPc'[q] \in {"loggingOut", "authFailed"} /\ reqSent'[q] = reqSent[q])
         ]_vars

\* The refresh that followed a 401 failed and the request has ended with the
\* authentication error.
C20_Witness ==
    /\ lastOp = Op("refreshFailed", "q1", "request", None)
    /\ reqPc["q1"] = "authFailed"
    /\ reqSent["q1"] = 1
    /\ reqRefreshes["q1"] = 1
    /\ accessToken = "none"

\* C12: the step in which a createFile or deleteFile call learns that its
\* request failed changes neither the file list, the selection nor the buffer,
\* and broadcasts nothing.
C12_FailedFileOpChangesNothing ==
    [][\A c \in Clients :
        (lastOp'.op \in {"createFailed", "deleteFailed"} /\ lastOp'.client = c)
           => /\ files'[c] = files[c]
              /\ currentFile'[c] = currentFile[c]
              /\ editorContent'[c] = editorContent[c]
              /\ fileNotices'[c] = fileNotices[c]
      ]_vars

\* A createFile call has failed: the list is the one loaded and nothing has
\* been broadcast.
C12_Witness ==
    /\ lastOp.op = "createFailed"
    /\ lastOp.client = FileClient
    /\ files[FileClient] = ServerFiles
    /\ fileNotices[FileClient] = {}

\* C13: the step in which a createFile call learns that its request succeeded
\* appends the new file to the list, broadcasts file-created for it (a socket
\* being attached), selects it and puts the default content of its language
\* into the buffer.
C13_CreateFileSucceeds ==
    [][\A c \in Clients :
        (lastOp'.op = "createOk" /\ lastOp'.client = c)
           => /\ Len(files'[c]) = Len(files[c]) + 1
              /\ SubSeq(files'[c], 1, Len(files[c])) = files[c]
              /\ files'[c][Len(files'[c])].id = lastOp'.content
              /\ socket[c] =>
                    [event |-> "file-created", fileId |-> lastOp'.content] \in fileNotices'[c]
              /\ currentFile'[c] = files'[c][Len(files'[c])]
              /\ editorContent'[c] = DefaultContent(lastOp'.from)
              /\ editorContent'[c] # ""
      ]_vars

\* A python file has been created: it is listed last, selected, announced, and
\* the buffer holds the python template.
C13_Witness ==
    /\ lastOp = Op("createOk", FileClient, "f4", "python")
    /\ IdOf(currentFile[FileClient]) = "f4"
    /\ editorContent[FileClient] = "# Welcome"
    /\ [event |-> "file-created", fileId |-> "f4"] \in fileNotices[FileClient]

\* C14 (as claimed): the load effect requests the file list once in a room
\* session; any further request is a refreshFiles call.
C14_ListFilesRequestedOnce ==
    calls["loadFiles"] <= 1

\* C15 (as claimed): every handleContentChange(content) call made while a file is
\* selected leaves the buffer equal to content when it returns, whatever
\* code-updated events were applied before the call.
C15_LocalEditVisibleAtOnce ==
    [][\A c \in Clients :
        (/\ lastOp'.op = "edit" /\ lastOp'.client = c
         /\ nEdits'[c] = nEdits[c] + 1
         /\ currentFile[c] # NoFile)
        => editorContent'[c] = lastOp'.content
      ]_vars

\* The hooks that carry the membership, chat and editor handlers of a room.
SynchronizerHooks == {"RoomComponent", "useChat", "useCodeEditor"}

\* Socket i carries a handler of one of those hooks.
Subscribed(chs, i) ==
    \E r \in Registrations : r[1] \in SynchronizerHooks /\ chs[i].handlers[r] > 0

\* join-room was emitted on socket i while it was connected.
JoinedOn(log, i) ==
    \E k \in 1..Len(log) : log[k] = [event |-> "join-room", channel |-> i, open |-> TRUE]

\* C16: room entry goes fetch, channel, join-room, handlers. A socket carries
\* membership, chat or editor handlers only if it was opened for the room after
\* its details were fetched and join-room was emitted on it before; while the
\* details are being fetched, or after the fetch failed, there is no socket of
\* the room, no join-room of this entry and no such handler on a socket of this
\* entry; every join-room is emitted on the connected socket of the room, by
\* the socket effect that opened it, on the new socket, or by the hooks that
\* attach to it, before any chat or editor handler is on it.
C16_EntryOrder ==
    /\ [](\A i \in 1..Len(channels) :
            Subscribed(channels, i) => /\ channels[i].session > 0
                                       /\ JoinedOn(emitted, i))
    /\ [](phase \in {"loading", "failed"} =>
            /\ roomSocket = 0
            /\ \A i \in 1..Len(channels) :
                  channels[i].session = calls["enterRoom"]
                  => ~Subscribed(channels, i) /\ ~JoinedOn(emitted, i))
    /\ [][Len(emitted') > Len(emitted) /\ emitted'[Len(emitted')].event = "join-room"
          => /\ lastOp'.op \in {"roomLoaded", "hooksAttached"}
             /\ phase' \in {"joined", "attached"}
             /\ emitted'[Len(emitted')] =
                    [event |-> "join-room", channel |-> roomSocket', open |-> TRUE]
             /\ lastOp'.op = "roomLoaded" => roomSocket' = Len(channels) + 1
             /\ lastOp'.op = "hooksAttached"
                => \A r \in Registrations :
                      r[1] \in {"useChat", "useCodeEditor"}
                      => channels[roomSocket].handlers[r] = 0
      ]_vars

\* C16 witness: the room is entered and the hooks are attached: the socket of
\* the room carries membership, chat and editor handlers and join-room was
\* emitted on it.
C16_Witness ==
    /\ phase = "attached"
    /\ roomSocket # 0
    /\ \A h \in SynchronizerHooks :
          \E r \in Registrations : r[1] = h /\ channels[roomSocket].handlers[r] > 0
    /\ JoinedOn(emitted, roomSocket)

\* C17 (as claimed): when the room view is left with a socket of the room, a
\* leave-room is emitted on that socket while it is connected, and no leave-room
\* is emitted on a socket that is already disconnected.
C17_LeaveRoomBeforeClose ==
    /\ [](\A k \in 1..Len(emitted) : emitted[k].event = "leave-room" => emitted[k].open)
    /\ [][lastOp'.op = "leaveOk" /\ phase = "attached" /\ phase' = "dashboard"
          => \E k \in Len(emitted) + 1..Len(emitted') :
                emitted'[k] = [event |-> "leave-room", channel |-> roomSocket, open |-> TRUE]
      ]_vars

\* C18 (as claimed): when an executeCode call completes successfully and another
\* call has completed successfully too, lastResult is the result of the one of
\* the successful calls that was issued last.
C18_LastResultIsLatestCall ==
    [][\A n \in 1..MaxRuns :
          (/\ runs[n] = "running" /\ runs'[n] = "succeeded"
           /\ \E m \in 1..MaxRuns \ {n} : runs[m] = "succeeded")
          => \A m \in 1..MaxRuns : runs'[m] = "succeeded" => lastResult' >= ResultOf(m)
      ]_vars

\* C19 (as claimed): the leave-or-delete call in flight has issued one request:
\* delete-room only if the local user owns the room, leave-room only if the
\* local user does not; the room view is left for the dashboard only on an
\* answer that reports success.
C19_LeaveOrDeleteByRole ==
    /\ [](/\ Cardinality(issued) <= 1
          /\ "delete-room" \in issued => ownerId = ChatUser
          /\ "leave-room" \in issued => ownerId # ChatUser)
    /\ [][lastOp'.op = "leaveOk" /\ phase # "dashboard" /\ phase' = "dashboard"
          => lastOp'.content = "ok"]_vars

\* C21 (as claimed): at most one broadcast timer and one persist timer are
\* pending; every handleContentChange(content) call made with a file selected
\* cancels both and leaves exactly one of each pending, both carrying content;
\* the persist timer, when it fires, issues one update request with the content
\* of the call that armed it: a burst of calls, each made while the persist
\* timer of the previous one is pending, issues one request with the last content.
C21_BurstPersistsLastContent ==
    /\ [](\A c \in Clients : /\ Cardinality(updateTimeoutRef[c]) <= 1
                             /\ Cardinality(saveTimeoutRef[c]) <= 1)
    /\ [][\A c \in Clients :
            /\ (/\ lastOp'.op = "edit" /\ lastOp'.client = c
                /\ nEdits'[c] = nEdits[c] + 1
                /\ currentFile[c] # NoFile)
               => /\ saveTimeoutRef'[c] = {[fileId |-> currentFile[c].id,
                                            content |-> lastOp'.content]}
                  /\ \A t \in updateTimeoutRef'[c] : t.content = lastOp'.content
                  /\ Cardinality(updateTimeoutRef'[c]) = 1
            /\ (/\ lastOp'.op = "save" /\ lastOp'.client = c
                /\ saveTimeoutRef'[c] # saveTimeoutRef[c]
                /\ \A t \in saveTimeoutRef[c] : t.fileId # None)
               => /\ saveTimeoutRef'[c] = {}
                  /\ updateRequests'[c] \ updateRequests[c] \subseteq
                        {[fileId |-> t.fileId, content |-> lastOp'.content] :
                            t \in saveTimeoutRef[c]}
                  /\ \E r \in updateRequests'[c] : r.content = lastOp'.content
         ]_vars

\* C22 (as claimed): the answer to the getFile request of selectFile(a) that
\* arrives after a later selectFile call was made is ignored: the selection
\* and the buffer stay as they are.
C22_StaleSelectIgnored ==
    [][\A r \in selectRequests[FileClient] :
          (/\ lastOp'.op = "selectFetched"
           /\ r \notin selectRequests'[FileClient]
           /\ (r.n < calls["selectFetch"] \/ r.after < nSelects[FileClient]))
          => /\ currentFile'[FileClient] = currentFile[FileClient]
             /\ editorContent'[FileClient] = editorContent[FileClient]
      ]_vars

\* C23 (as claimed): a selectFile(f) call for a listed file leaves the buffer
\* equal to the last-known content of f: the content of the last edit the
\* client made or received for f, or the listed content when there was none.
C23_SelectShowsLastKnownContent ==
    [][\A c \in Clients : \A f \in AllFileIds :
          (/\ lastOp'.op = "select" /\ lastOp'.client = c
           /\ nSelects'[c] = nSelects[c] + 1
           /\ IdOf(currentFile'[c]) = f
           /\ Find(files[c], f) # NoFile)
          => editorContent'[c] = IF lastKnown[c][f] # None
                                 THEN lastKnown[c][f]
                                 ELSE Find(files[c], f).content
      ]_vars

\* The transcript is in the order of createdAt, no message twice.
Ordered(list) ==
    \A i, j \in DOMAIN list : i < j => CreatedAt(list[i].id) < CreatedAt(list[j].id)

\* C24 (as claimed): the transcript is ordered by createdAt in every state,
\* whatever pages were loaded and in whatever order the message events arrived.
C24_TranscriptOrdered == Ordered(messages)

\* C25: at most one auto-stop timer of setTyping is pending; a setTyping(true)
\* call on a socket leaves typing=true emitted and exactly one timer pending, a
\* setTyping(false) call leaves none; the timer, when it fires, emits
\* typing=false; and while the room stays mounted an emitted typing=true is
\* eventually followed by an emitted typing=false.
C25_TypingAutoStops ==
    /\ [](typingTimeout <= 1)
    /\ [][(lastOp'.op = "setTyping" /\ calls'["setTyping"] = calls["setTyping"] + 1)
          => /\ typingSent' = lastOp'.content
             /\ typingTimeout' = IF lastOp'.content = "true" THEN 1 ELSE 0]_vars
    /\ [][typingTimeout' < typingTimeout /\ chatMounted' /\ lastOp'.op = "autoStop"
          => typingSent' = "false"]_vars
    /\ [](typingSent = "true" /\ chatMounted => typingTimeout = 1)
    /\ (typingSent = "true") ~> (typingSent = "false" \/ ~chatMounted)

\* C25 witness: typing=true was emitted by setTyping(true), the 3 s timer
\* fired and emitted typing=false, the room still mounted.
C25_Witness ==
    /\ lastOp.op = "autoStop"
    /\ typingSent = "false"
    /\ typingTimeout = 0
    /\ chatMounted
    /\ calls["setTyping"] > 0

\* The sockets that are connected.
OpenChannels == {i \in DOMAIN channels : channels[i].connected}

\* C26 (as claimed): never more than one socket is connected, and a socket the
\* room view opened (the one useChat and useCodeEditor are given) is closed by
\* the room view or not at all.
C26_OnlyControllerClosesRoomChannel ==
    /\ Cardinality(OpenChannels) <= 1
    /\ \A i \in DOMAIN custody :
          custody[i].openedBy = "RoomComponent"
              => custody[i].closedBy \in {None, "RoomComponent"}

\* How many entries of the list have the id.
Entries(list, id) == Cardinality({i \in DOMAIN list : list[i].id = id})

\* C27 (as claimed): the file list never holds two entries with one id; a
\* file-created event for an id already listed leaves the list unchanged; and
\* after the create response the list holds exactly one entry with the new id.
C27_OneEntryPerCreatedFile ==
    /\ [](\A c \in Clients, id \in AllFileIds : Entries(files[c], id) <= 1)
    /\ [][\A c \in Clients :
            lastOp'.op = "fileCreated" /\ lastOp'.client = c
            /\ Find(files[c], lastOp'.content) # NoFile
            => files'[c] = files[c]]_vars
    /\ [][\A c \in Clients :
            lastOp'.op = "createOk" /\ lastOp'.client = c
            => Entries(files'[c], lastOp'.content) = 1]_vars

\* Every message of the server's log is in the transcript.
TranscriptComplete ==
    \A k \in DOMAIN serverLog : MessageExists(messages, serverLog[k].id)

\* C28 (as claimed): the step in which the socket reconnects starts a file list
\* request, the room details request (the view is loading again) and a history
\* request; and after a reconnect the transcript eventually holds every
\* message of the server's log, unless the transport is lost again.
C28_ResyncAfterReconnect ==
    /\ [][lastOp'.op = "reconnected" /\ link = "down" /\ link' = "up"
          => /\ loadRequests'[ChatUser] # loadRequests[ChatUser]
             /\ historyRequests' # historyRequests
             /\ phase' = "loading"]_vars
    /\ (lastOp.op = "reconnected") ~> (link = "down" \/ TranscriptComplete)

\* C29: when the room-details fetch fails, the error view is shown and nothing
\* else changes: no socket is opened, nothing is emitted. While the error view
\* is shown there is no room and no socket of the room, and no socket of this
\* entry was opened by the room view, carries a membership, chat or editor
\* handler, or had join-room emitted on it. From the error view the only way is
\* back to the dashboard: this entry never reaches the joined or attached phase.
C29_FailedFetchBlocksEntry ==
    /\ [][lastOp'.op = "roomLoadFailed" /\ phase = "loading"
          => /\ phase' = "failed"
             /\ channels' = channels
             /\ emitted' = emitted
             /\ roomSocket' = 0]_vars
    /\ [](phase = "failed" =>
            /\ roomDetails = NoRoom
            /\ roomSocket = 0
            /\ \A i \in 1..Len(channels) :
                  channels[i].session = calls["enterRoom"]
                  => /\ custody[i].openedBy # "RoomComponent"
                     /\ ~Subscribed(channels, i)
                     /\ ~JoinedOn(emitted, i))
    /\ [][phase = "failed" => phase' \in {"failed", "dashboard"}]_vars

\* C29 witness: a second entry whose fetch failed, after a first entry that
\* went all the way; a request to leave from the error view failed and the
\* error view is still shown.
C29_Witness ==
    /\ phase = "failed"
    /\ calls["enterRoom"] = 2
    /\ lastOp.op = "leaveFailed"
    /\ \E k \in 1..Len(emitted) : emitted[k].event = "join-room"

\* C30 (as claimed): in every state the selected file of each client is none
\* or a file whose id is in the client's file list.
C30_SelectedFileListed ==
    \A c \in Clients :
        currentFile[c] = NoFile \/ Find(files[c], IdOf(currentFile[c])) # NoFile

\* C31 (as claimed): the transcript never holds two entries with one id,
\* whatever pages were loaded and whatever live events were handled between.
C31_TranscriptHasNoDuplicate ==
    \A i, j \in DOMAIN messages : messages[i].id = messages[j].id => i = j

\* The new-message event of the message was handled: the server stored the
\* message and its event is no longer on the way.
LiveEventHandled(id) ==
    /\ \E k \in DOMAIN serverLog : serverLog[k].id = id
    /\ \A ev \in deliveries : ev.message.id # id

\* C32 (as claimed): a message a live event appended to the transcript is in
\* the transcript in every later state, whatever history answer is applied.
C32_LiveMessageStays ==
    \A k \in DOMAIN MsgIds :
        LiveEventHandled(MsgIds[k]) => MessageExists(messages, MsgIds[k])

\* C33 (as claimed): a completed persist of a file changes the cached record
\* of that file only: a selected file with another id keeps its record, and
\* the list entries of the other files keep theirs.
C33_PersistTouchesOnlyItsFile ==
    [][\A c \in Clients :
          lastOp'.op = "saveOk" /\ lastOp'.client = c
          /\ updateRequests'[c] # updateRequests[c]
          => /\ IdOf(currentFile[c]) # lastOp'.from => currentFile'[c] = currentFile[c]
             /\ \A i \in DOMAIN files[c] :
                   files[c][i].id # lastOp'.from => files'[c][i] = files[c][i]
      ]_vars

\* C34: every code-change on its way to a member and every persist request
\* awaited carries a file id and a content such that its sender typed that
\* content while that file was selected, whatever file is selected by now.
C34_EditSentUnderItsFile ==
    /\ \A d \in Clients : \A i \in DOMAIN inbox[d] :
          [fileId |-> inbox[d][i].fileId, content |-> inbox[d][i].content]
              \in typed[inbox[d][i].userId]
    /\ \A c \in Clients : \A r \in updateRequests[c] :
          [fileId |-> r.fileId, content |-> r.content] \in typed[c]

\* C34 witness: the selection changed before the timers fired: a code-change
\* is on its way and a persist request is awaited, both for a file that is not
\* the one selected now.
C34_Witness ==
    /\ \E r \in updateRequests[FileClient] : r.fileId # IdOf(currentFile[FileClient])
    /\ \E d \in Clients : \E i \in DOMAIN inbox[d] :
          /\ inbox[d][i].userId = FileClient
          /\ inbox[d][i].fileId # IdOf(currentFile[FileClient])

\* C35 (as claimed): when a 5 s timer removes the indicator of a user, it is
\* the timer of the most recent event for that user: no timer of a later event
\* is still pending for the user, that is, the indicator was not refreshed
\* since the timer was armed.
C35_OnlyLatestTimerRemoves ==
    [][\A u \in ChatUsers :
          (/\ lastOp'.op = "typingExpired" /\ lastOp'.from = u
           /\ typingTimers'[u] = typingTimers[u] - 1
           /\ \E i \in DOMAIN typing : typing[i].userId = u)
          => typingTimers[u] = 1
      ]_vars

\* C36 (as claimed): a sendMessage call that returned false emitted nothing,
\* and a call rejected for a blank message or a missing channel hands nothing
\* to the server.
C36_FalseMeansNothingSent ==
    /\ [](\A e \in sendLog : e.returned = "false" => ~e.emitted)
    /\ [][lastOp'.op = "sendRejected" /\ calls'["sendMessage"] = calls["sendMessage"] + 1
          => storeRequests' = storeRequests]_vars

\* C37 (as claimed): while the error view of a failed room entry is shown, no
\* leave-room and no delete-room request is issued.
C37_FailedEntryIssuesNoRequest ==
    phase = "failed" => issued = {}

\* C38 (as claimed): the stored credentials are removed and the page is sent to
\* the login entry point only by a failed refresh or a retry that is again
\* unauthorized; a retry that fails with another status keeps the credentials
\* and ends the request with that error.
C38_OnlyInvalidSessionResets ==
    /\ [][\A q \in Requests :
            (reqPc[q] = "retry" /\ lastOp' = Op("retryResponse", q, reqVia[q], "500"))
               => /\ reqPc'[q] = "failed"
                  /\ accessToken' = accessToken
                  /\ refreshTokenStored' = refreshTokenStored
                  /\ atLogin' = atLogin
         ]_vars
    /\ [][(~atLogin /\ atLogin')
             => \/ lastOp'.op \in {"refreshFailed", "loggedOut"}
                \/ (lastOp'.op = "retryResponse" /\ lastOp'.from = "401")
         ]_vars

\* The code-change events of member c among the events on their way to d.
EmittedBy(box, c, d) ==
    LET FromC(change) == change.userId = c IN SelectSeq(box[d], FromC)

\* C39: once the editor hook of a member is unmounted, no timer of it is
\* pending, and no step emits a code-change of that member or issues a persist
\* request of it.
C39_NothingAfterTeardown ==
    /\ [](\A c \in Clients :
            ~editorMounted[c] => (updateTimeoutRef[c] = {} /\ saveTimeoutRef[c] = {}))
    /\ [][\A c \in Clients :
            ~editorMounted[c]
               => /\ \A d \in Clients : EmittedBy(inbox', c, d) = EmittedBy(inbox, c, d)
                  /\ updateRequests'[c] \subseteq updateRequests[c]
         ]_vars

\* The hook has just unmounted with an edit in the buffer that was neither
\* broadcast nor handed to the server: both of its timers were pending.
C39_Witness ==
    /\ lastOp = Op("editorUnmount", FileClient, "", FileClient)
    /\ ~editorMounted[FileClient]
    /\ \E e \in typed[FileClient] :
          /\ editorContent[FileClient] = e.content
          /\ \A d \in Clients : \A i \in DOMAIN inbox[d] : inbox[d][i].content # e.content
          /\ \A r \in updateRequests[FileClient] : r.content # e.content
          /\ \A i \in DOMAIN files[FileClient] : files[FileClient][i].content # e.content

====
